---- MODULE Spec2Model ----
(***************************************************************************)
(* ts-health: the scoring analyzers (SleepAnalyzer, ReadinessAnalyzer,     *)
(* RecoveryAnalyzer, TrendAnalyzer) as operators over the normalized       *)
(* records, and the calls made on them as actions.                         *)
(*                                                                         *)
(* Numbers.  Durations are seconds, scores are integers.  The code works   *)
(* in IEEE doubles, and so does the model where rounding can decide: the   *)
(* inputs are integers, so the exact value of an average, a ratio or a     *)
(* deviation is a fraction.  A fraction that is not equal to the threshold *)
(* it is compared with is away from it by far more than the doubles can be *)
(* off (1 / (n * m) for averages over n and m values, against 2^-50 of the *)
(* values); the doubles then compare as the fractions do, which is done by *)
(* cross-multiplication.  When the exact value meets the threshold, or     *)
(* lies halfway between two integers under Math.round, the outcome is the  *)
(* one of the doubles, computed operation by operation as the code does.   *)
(* Values that the code rounds to two decimals are kept in hundredths      *)
(* (1050 stands for 10.50).                                                *)
(*                                                                         *)
(* Optional arrays (params.sleep?: SleepSession[]) are records             *)
(* [present, items]; an optional number (lowestHeartRate?) is a sequence   *)
(* of length 0 or 1.                                                       *)
(*                                                                         *)
(* The platform drivers (RenphoDriver, AppleHealthDriver, OuraDriver,      *)
(* WhoopDriver) are objects with fields; their getters are async, and a    *)
(* getter runs without interruption from one await to the next, so each    *)
(* stretch between two awaits is one action.  A getter that awaits one     *)
(* that has settled already is pending when its call returns, and goes on  *)
(* one microtask later.                                                    *)
(***************************************************************************)
EXTENDS Integers, Sequences, FiniteSets, TLC

VARIABLES
    method,   \* the analyzer method that is called
    args,     \* the arguments of the call: the caller's arrays, as they are now
    created,  \* the arguments as the caller created them
    pc,       \* "called" while the call runs, "returned" once it has returned
    result,   \* the value the call returned (<<>> until it returns)
    history,  \* the calls that have returned so far, on any analyzer instance
              \* (an instance has no fields: the classes declare none)
    driver,   \* the fields of the driver object (<<>> when no driver is used)
    env,      \* what the driver reaches outside: the export file, the server's pages
    tasks,    \* the getter calls made on the driver, each with its position
    io        \* the requests sent and the files read so far, in order

vars == <<method, args, created, pc, result, history, driver, env, tasks, io>>
callVars == <<method, args, created, pc, result, history>>
driverVars == <<driver, env, tasks, io>>

\* an analyzer call uses no driver, and a driver getter makes no analyzer call
NoDriver == driver = <<>> /\ env = <<>> /\ tasks = <<>> /\ io = <<>>
NoCall ==
    /\ method = "" /\ args = <<>> /\ created = <<>>
    /\ pc = "idle" /\ result = <<>> /\ history = <<>>

----------------------------------------------------------------------------
(* Bounds of the model *)

MaxSessions == 4      \* analyzeSleepDebt: longest sessions array
MaxLen == 3           \* calculateTrainingReadiness / calculateRecovery: longest input array
MaxHrv == 7           \* longest hrv array (7 samples switch scoreHRV to the baseline ratio)
DaySamples == 40      \* a heart-rate array long enough for a resting estimate of 2 samples
MaxActivity == 6      \* strain balance: longest activity array
MaxPoints == 4        \* analyzeTrend: longest dataPoints array
MaxWindow == 3        \* calculateMovingAverage: largest windowSize
MaxAnomalyPoints == 6 \* detectAnomalies: longest dataPoints array drawn from AnomalyValues
MaxMetrics == 2       \* analyzeMultipleMetrics: longest metrics array
MaxCalls == 3         \* longest sequence of calls made one after the other
MaxPhases == 4        \* parseSleepPhases: longest phase string
MaxRenphoCalls == 2   \* getter calls started on one RenphoDriver
MaxAppleCalls == 2    \* getter calls on one AppleHealthDriver
MaxPages == 3         \* pages the server holds for one endpoint
MaxFetches == 1       \* calls that send requests, started on one Oura or WHOOP driver
MaxDriverCalls == 2   \* calls on one driver, unsupported getters included

----------------------------------------------------------------------------
(* JavaScript built-ins used by the analyzers *)

Max(a, b) == IF a >= b THEN a ELSE b
Min(a, b) == IF a <= b THEN a ELSE b

\* Math.round(n / d): the nearest integer, halves towards +Infinity
RoundPos(n, d) == IF 2 * (n % d) >= d THEN (n \div d) + 1 ELSE n \div d
RoundDiv(n, d) == IF d > 0 THEN RoundPos(n, d) ELSE RoundPos(0 - n, 0 - d)

\* Math.ceil(n / d) for d > 0
CeilDiv(n, d) == 0 - ((0 - n) \div d)

RECURSIVE Sum(_)
\* values.reduce((a, b) => a + b, 0)
Sum(s) == IF Len(s) = 0 THEN 0 ELSE Head(s) + Sum(Tail(s))

\* Array.prototype.slice(start, end), indices from 0, negative ones from the end
SliceIndex(n, i) == IF i < 0 THEN Max(n + i, 0) ELSE Min(i, n)
Slice(s, start, end) ==
    LET from == SliceIndex(Len(s), start)
        to   == SliceIndex(Len(s), end)
    IN  IF from >= to THEN <<>> ELSE SubSeq(s, from + 1, to)
SliceFrom(s, start) == Slice(s, start, Len(s))

\* the order that sort((a, b) => Key(a) - Key(b)) puts the elements of an
\* array in: ascending and stable
Ascending(Key(_), s) ==
    LET n == Len(s)
        rank(i) == Cardinality({j \in 1..n :
                        \/ Key(s[j]) < Key(s[i])
                        \/ (Key(s[j]) = Key(s[i]) /\ j < i)}) + 1
    IN  [p \in 1..n |-> s[CHOOSE i \in 1..n : rank(i) = p]]

\* An array is an object, and a variable or a parameter holds a reference to
\* it.  The arrays a statement works on are the elements of a heap, and a
\* reference is a position in the heap.

\* const copy = array: the same array under another name
Spread_sameArray(heap, ref) == [heap |-> heap, ref |-> ref]

\* [...array]: a new array that holds the elements of the one referred to
Spread(heap, ref) == [heap |-> Append(heap, heap[ref]), ref |-> Len(heap) + 1]

\* [...s].sort((a, b) => Key(a) - Key(b)), for s the one array of the heap:
\* sort puts the array it is called on in order, in place, and returns it.
\* The value is the heap the statement leaves and the reference it returns.
SpreadSort(Key(_), s) ==
    LET copy == Spread(<<s>>, 1)
    IN  [heap |-> [r \in 1..Len(copy.heap) |->
                      IF r = copy.ref THEN Ascending(Key, copy.heap[r])
                                      ELSE copy.heap[r]],
         ref  |-> copy.ref]

\* the array that [...s].sort(...) returns
SortBy(Key(_), s) ==
    LET left == SpreadSort(Key, s)
    IN  left.heap[left.ref]

\* the array s itself, once [...s].sort(...) has run
AfterSortBy(Key(_), s) == SpreadSort(Key, s).heap[1]

Day(r) == r.day
SortByDay(s) == SortBy(Day, s)

Field(s, F(_)) == [i \in 1..Len(s) |-> F(s[i])]

\* an optional array parameter
Absent == [present |-> FALSE, items |-> <<>>]
Given(items) == [present |-> TRUE, items |-> items]
\* !xs || xs.length === 0
Missing(p) == ~p.present \/ Len(p.items) = 0
\* !xs || xs.length < k
FewerThan(p, k) == ~p.present \/ Len(p.items) < k

----------------------------------------------------------------------------
(* IEEE 754 doubles *)

\* A JavaScript number is an IEEE 754 double, and every +, -, *, / and
\* Math.sqrt gives the double nearest to the exact result.  The significand
\* of a double has 53 bits; it is kept as a natural number of any size, written
\* as the sequence of its digits in base 2^15, lowest first, without a
\* leading zero digit.
BigDigit(a, i) == IF 1 <= i /\ i <= Len(a) THEN a[i] ELSE 0

\* the value of the last of some steps, which are computed in their order
Last(steps) == steps[Len(steps)]

\* the greatest member of a finite set of integers
Greatest(S) == CHOOSE i \in S : \A j \in S : j <= i

\* a without its leading zero digits
BigNorm(a) == SubSeq(a, 1, Greatest({0} \cup {i \in 1..Len(a) : a[i] # 0}))

\* a natural number below 2^31, and back
BigOf(n) == BigNorm(<<n % 32768, (n \div 32768) % 32768, n \div 1073741824>>)
BigToInt(a) == BigDigit(a, 1) + 32768 * BigDigit(a, 2) + 1073741824 * BigDigit(a, 3)

\* a + b, for digit sequences with or without leading zeros: digit by digit,
\* a carry entering digit i when a digit below overflows and every digit
\* between passes the carry on
BigAdd(a, b) ==
    LET s(i) == BigDigit(a, i) + BigDigit(b, i)
        carry(i) == \E j \in 1..(i - 1) :
                        s(j) >= 32768 /\ \A k \in (j + 1)..(i - 1) : s(k) >= 32767
    IN  BigNorm([i \in 1..(Max(Len(a), Len(b)) + 1) |->
                    (s(i) + (IF carry(i) THEN 1 ELSE 0)) % 32768])

\* a - b for a >= b
BigSub(a, b) ==
    LET borrow(i) == \E j \in 1..(i - 1) :
                         /\ a[j] < BigDigit(b, j)
                         /\ \A k \in (j + 1)..(i - 1) : a[k] <= BigDigit(b, k)
    IN  BigNorm([i \in 1..Len(a) |->
                    (a[i] - BigDigit(b, i) - (IF borrow(i) THEN 1 ELSE 0) + 32768)
                    % 32768])

\* -1, 0 or 1 as a is less than, equal to or greater than b: by the highest
\* digit in which they differ
BigCmpAt(a, b, top) == IF top = 0 THEN 0 ELSE IF a[top] > b[top] THEN 1 ELSE 0 - 1
BigCmp(a, b) ==
    IF Len(a) > Len(b) THEN 1
    ELSE IF Len(a) < Len(b) THEN 0 - 1
    ELSE BigCmpAt(a, b, Greatest({0} \cup {i \in 1..Len(a) : a[i] # b[i]}))

\* a times one digit: the low parts of the digits' products plus their high
\* parts one place up, with the carries as in the sum
BigTimes(a, digit) ==
    LET s(i) == ((BigDigit(a, i) * digit) % 32768)
                + ((BigDigit(a, i - 1) * digit) \div 32768)
        carry(i) == \E j \in 1..(i - 1) :
                        s(j) >= 32768 /\ \A k \in (j + 1)..(i - 1) : s(k) >= 32767
    IN  BigNorm([i \in 1..(Len(a) + 1) |->
                    (s(i) + (IF carry(i) THEN 1 ELSE 0)) % 32768])

\* a * b for a and b of at most four digits, as the significands of doubles
\* are: the products of the digit pairs of each place, low and high parts
BigMul(a, b) ==
    LET P(i, j) == BigDigit(a, j) * BigDigit(b, i + 1 - j)
        lo(i)   == (P(i, 1) % 32768) + (P(i, 2) % 32768) + (P(i, 3) % 32768)
                   + (P(i, 4) % 32768)
        hi(i)   == (P(i, 1) \div 32768) + (P(i, 2) \div 32768) + (P(i, 3) \div 32768)
                   + (P(i, 4) \div 32768)
        t(i)    == lo(i) + (IF i = 1 THEN 0 ELSE hi(i - 1))
    IN  BigAdd(BigNorm([i \in 1..8 |-> t(i) % 32768]),
               BigNorm([i \in 1..9 |-> IF i = 1 THEN 0 ELSE t(i - 1) \div 32768]))

\* a * 2^k: whole digits, then bits, each digit taking the high bits of the
\* one below
BigShlBy(a, w, r) ==
    BigNorm([i \in 1..(Len(a) + w + 1) |->
                IF i <= w THEN 0
                ELSE ((BigDigit(a, i - w) * r) % 32768)
                     + ((BigDigit(a, i - w - 1) * r) \div 32768)])
BigShl(a, k) == BigShlBy(a, k \div 15, 2 ^ (k % 15))

\* floor(a / 2^k)
BigShrBy(a, w, r) ==
    BigNorm([i \in 1..Max(Len(a) - w, 0) |->
                (BigDigit(a, i + w) \div r)
                + (BigDigit(a, i + w + 1) % r) * (32768 \div r)])
BigShr(a, k) == BigShrBy(a, k \div 15, 2 ^ (k % 15))

\* the number of bits of a natural number below 2^30
BitLenOf(n) == CHOOSE k \in 0..30 : n < 2 ^ k /\ (k = 0 \/ 2 ^ (k - 1) <= n)
BigBitLen(a) == IF Len(a) = 0 THEN 0 ELSE 15 * (Len(a) - 1) + BitLenOf(a[Len(a)])
\* bit i of a, the lowest being bit 0
BigBit(a, i) == (BigDigit(a, i \div 15 + 1) \div (2 ^ (i % 15))) % 2
\* whether a is a multiple of 2^k
BigLowBitsZero(a, k) == \A i \in 0..(k - 1) : BigBit(a, i) = 0

\* the digit d with d * q <= a < (d + 1) * q, for a < 2^15 * q and the highest
\* digit of q at least 2^14: the quotient est of the two highest digits of a by
\* the highest of q is d, d + 1 or d + 2
BigDigitNear(a, q, est) ==
    IF BigCmp(BigTimes(q, est), a) <= 0 THEN est
    ELSE IF BigCmp(BigTimes(q, est - 1), a) <= 0 THEN est - 1
    ELSE est - 2
BigDigitOf(a, q) ==
    BigDigitNear(a, q, Min(32767, (BigDigit(a, Len(q) + 1) * 32768 + BigDigit(a, Len(q)))
                                  \div q[Len(q)]))

RECURSIVE BigDivFrom(_, _, _, _, _)
RECURSIVE BigDivDigit(_, _, _, _, _)
RECURSIVE BigDivStep(_, _, _, _, _, _)
\* long division by q, highest digit first: the digits i and below of p are
\* still to come, rem is the remainder so far and quo the quotient's digits so
\* far.  Each step takes the remainder with the next digit of p below it; the
\* digit of the quotient is 0 when that is less than q.
BigDivFrom(p, q, i, rem, quo) ==
    IF i = 0 THEN [quo |-> BigNorm(quo), rem |-> rem]
    ELSE BigDivDigit(p, q, i, BigNorm(<<p[i]>> \o rem), quo)
BigDivDigit(p, q, i, cur, quo) ==
    IF BigCmp(cur, q) < 0 THEN BigDivFrom(p, q, i - 1, cur, <<0>> \o quo)
    ELSE BigDivStep(p, q, i, cur, BigDigitOf(cur, q), quo)
BigDivStep(p, q, i, cur, d, quo) ==
    BigDivFrom(p, q, i - 1, BigSub(cur, BigTimes(q, d)), <<d>> \o quo)

\* quotient and remainder of p by q # 0.  Both are first scaled by 2^s to
\* bring the highest digit of q to 2^14 or more; the division starts from the
\* digits of p that make a number below q.
BigDivFirst(p, q, n) == BigDivFrom(p, q, n, SubSeq(p, n + 1, Len(p)), <<>>)
BigDivScaled(p, q) == BigDivFirst(p, q, Max(Len(p) - Len(q) + 1, 0))
BigUnscaled(dm, s) == [quo |-> dm.quo, rem |-> BigShr(dm.rem, s)]
BigDivBy(p, q, s) == BigUnscaled(BigDivScaled(BigShl(p, s), BigShl(q, s)), s)
BigDivMod(p, q) == BigDivBy(p, q, 15 - BitLenOf(q[Len(q)]))

RECURSIVE IntSqrtFrom(_, _)
\* floor(sqrt(t)) for 0 < t < 2^30, by Newton's iteration from x >= sqrt(t):
\* the steps decrease until floor(sqrt(t)) is reached
IntSqrtNext(t, x, y) == IF y >= x THEN x ELSE IntSqrtFrom(t, y)
IntSqrtFrom(t, x) == IntSqrtNext(t, x, (x + t \div x) \div 2)

RECURSIVE BigSqrtFrom(_, _)
\* the same for a of any size
BigSqrtNext(a, x, y) == IF BigCmp(y, x) >= 0 THEN x ELSE BigSqrtFrom(a, y)
BigSqrtFrom(a, x) == BigSqrtNext(a, x, BigShr(BigAdd(x, BigDivMod(a, x).quo), 1))

\* floor(sqrt(a)).  The first estimate is above sqrt(a): one more than the
\* square root of the bits of a above the lowest sh, which are 29 or 30 in
\* number, times 2^(sh / 2).
BigSqrtShift(a) == IF BigBitLen(a) <= 30 THEN 0 ELSE 2 * ((BigBitLen(a) - 29) \div 2)
BigSqrtAbove(a, sh) ==
    BigShl(BigOf(IntSqrtFrom(BigToInt(BigShr(a, sh)), 32768) + 1), sh \div 2)
BigSqrt(a) == IF Len(a) = 0 THEN <<>> ELSE BigSqrtFrom(a, BigSqrtAbove(a, BigSqrtShift(a)))

\* A finite double is [neg, m, e], of value m * 2^e with 2^52 <= m < 2^53, or 0
\* with m = <<>>.  (The analyzers' numbers stay far from the subnormal and
\* the infinite ones; -0 is kept as 0.)
DZero == [neg |-> FALSE, m |-> <<>>, e |-> 0]

\* m * 2^e for m of len <= 53 bits
DExact(neg, m, e, len) == [neg |-> neg, m |-> BigShl(m, 53 - len), e |-> e - (53 - len)]

\* Rounding to nearest, ties to even, at bit d of m, the value being m or,
\* when sticky, strictly between m and m + 1: up when it is above the middle
\* of the two multiples of 2^d around it, or in the middle with the lower one
\* odd
DRoundsUp(m, sticky, d) ==
    /\ BigBit(m, d - 1) = 1
    /\ (sticky \/ BigBit(m, d) = 1 \/ ~BigLowBitsZero(m, d - 1))
\* m * 2^e for m of 53 bits, or 2^53 after rounding up
DCarried(neg, m, e) ==
    IF BigBitLen(m) = 54 THEN [neg |-> neg, m |-> BigShr(m, 1), e |-> e + 1]
    ELSE [neg |-> neg, m |-> m, e |-> e]
DRoundedAt(neg, m, sticky, e, d) ==
    DCarried(neg, BigAdd(BigShr(m, d), IF DRoundsUp(m, sticky, d) THEN <<1>> ELSE <<>>),
             e + d)

\* the double nearest to m * 2^e, or, when sticky, to a value strictly between
\* m * 2^e and (m + 1) * 2^e; m then has more than 54 bits
DNearestOf(neg, m, sticky, e, len) ==
    IF len <= 53 THEN DExact(neg, m, e, len) ELSE DRoundedAt(neg, m, sticky, e, len - 53)
DNearest(neg, m, sticky, e) ==
    IF Len(m) = 0 THEN DZero ELSE DNearestOf(neg, m, sticky, e, BigBitLen(m))

\* the double nearest to p / q * 2^e: the quotient of p * 2^s by q has more
\* than 54 bits, and the remainder tells whether it is exact
DQuotientOf(neg, dm, e) == DNearest(neg, dm.quo, Len(dm.rem) > 0, e)
DQuotientBy(neg, p, q, e, s) == DQuotientOf(neg, BigDivMod(BigShl(p, s), q), e - s)
DQuotient(neg, p, q, e) ==
    IF Len(p) = 0 THEN DZero
    ELSE DQuotientBy(neg, p, q, e, Max(0, 56 - (BigBitLen(p) - BigBitLen(q))))

\* an integer as a number, and a decimal literal num / den (0.85 is 85 / 100)
DIntOf(neg, m) == DExact(neg, m, 0, BigBitLen(m))
DInt(n) == IF n = 0 THEN DZero ELSE DIntOf(n < 0, BigOf(IF n < 0 THEN 0 - n ELSE n))
DLiteral(num, den) == DQuotient(FALSE, BigOf(num), BigOf(den), 0)

DNeg(x) == IF Len(x.m) = 0 THEN x ELSE [x EXCEPT !.neg = ~x.neg]

\* Math.abs(x)
DAbs(x) == [x EXCEPT !.neg = FALSE]

\* x + y for x = xm * 2^e and y = ym * 2^e up to their signs: the sign
\* of the one of greater magnitude, and the sum or the difference
DAddAligned(xneg, xm, yneg, ym, e) ==
    DNearest(IF xneg = yneg \/ BigCmp(xm, ym) >= 0 THEN xneg ELSE yneg,
             IF xneg = yneg THEN BigAdd(xm, ym)
             ELSE IF BigCmp(xm, ym) >= 0 THEN BigSub(xm, ym)
             ELSE BigSub(ym, xm),
             FALSE, e)
DAddAt(x, y, e) == DAddAligned(x.neg, BigShl(x.m, x.e - e), y.neg, BigShl(y.m, y.e - e), e)
\* x + y
DAdd(x, y) ==
    IF Len(x.m) = 0 THEN y
    ELSE IF Len(y.m) = 0 THEN x
    ELSE DAddAt(x, y, Min(x.e, y.e))
\* x - y
DSub(x, y) == DAdd(x, DNeg(y))
\* x * y
DMul(x, y) ==
    IF Len(x.m) = 0 \/ Len(y.m) = 0 THEN DZero
    ELSE DNearest(x.neg # y.neg, BigMul(x.m, y.m), FALSE, x.e + y.e)
\* x ** 2
DSquare(x) == DMul(x, x)
\* x / y for y # 0; the operands are computed first
DDiv(x, y) == Last(<<x, y, DQuotient(x.neg # y.neg, x.m, y.m, x.e - y.e)>>)

\* Math.sqrt(x) for x >= 0, x being a * 2^(2 * e): the root of a has more than
\* 54 bits, and its square tells whether it is exact
DSqrtRounded(a, root, e) == DNearest(FALSE, root, BigMul(root, root) # a, e)
DSqrtOf(a, e) == DSqrtRounded(a, BigSqrt(a), e)
DSqrtBy(x, k) == DSqrtOf(BigShl(x.m, k), (x.e - k) \div 2)
DSqrt(x) ==
    IF Len(x.m) = 0 THEN DZero ELSE DSqrtBy(x, IF x.e % 2 = 0 THEN 58 ELSE 59)

\* -1, 0 or 1 as x is less than, equal to or greater than y
DSign(x) == IF Len(x.m) = 0 THEN 0 ELSE IF x.neg THEN 0 - 1 ELSE 1
DMagCmp(x, y) ==
    IF Len(x.m) = 0 \/ Len(y.m) = 0 \/ x.e = y.e THEN BigCmp(x.m, y.m)
    ELSE IF x.e > y.e THEN 1 ELSE 0 - 1
DCmp(x, y) ==
    IF DSign(x) # DSign(y) THEN (IF DSign(x) > DSign(y) THEN 1 ELSE 0 - 1)
    ELSE DSign(x) * DMagCmp(x, y)

\* Math.round(x): the nearest integer, halves towards +Infinity
DRoundAt(neg, m, k) ==
    IF neg
    THEN 0 - (BigToInt(BigShr(m, k))
              + (IF BigBit(m, k - 1) = 1 /\ ~BigLowBitsZero(m, k - 1) THEN 1 ELSE 0))
    ELSE BigToInt(BigShr(m, k)) + BigBit(m, k - 1)
DRound(x) ==
    IF Len(x.m) = 0 THEN 0
    ELSE IF x.e >= 0 THEN DSign(x) * BigToInt(BigShl(x.m, x.e))
    ELSE DRoundAt(x.neg, x.m, 0 - x.e)

----------------------------------------------------------------------------
(* SleepAnalyzer.analyzeSleepDebt *)

TotalSleepDuration(s) == s.totalSleepDuration

\* for (const session of sessions) totalDebt += targetSeconds - session.totalSleepDuration
TotalDebt(sessions, targetSeconds) ==
    Sum([i \in 1..Len(sessions) |-> targetSeconds - sessions[i].totalSleepDuration])

\* Math.round(sum of durations / sessions.length / 60): a quotient halfway
\* between two integers comes from an average that is a whole number of
\* seconds, and both divisions are then exact
WeeklyAverageMinutes(sessions) ==
    RoundDiv(Sum(Field(sessions, TotalSleepDuration)), Len(sessions) * 60)

TrendThreshold == 600

\* recentAvg > olderAvg + 600 -> recovering; recentAvg < olderAvg - 600 -> accumulating,
\* on the doubles
DebtTrendOfAverages(recentAvg, olderAvg) ==
    IF DCmp(recentAvg, DAdd(olderAvg, DInt(TrendThreshold))) > 0 THEN "recovering"
    ELSE IF DCmp(recentAvg, DSub(olderAvg, DInt(TrendThreshold))) < 0 THEN "accumulating"
    ELSE "stable"

\* the same for recentAvg = recentSum / recentN and olderAvg = olderSum / olderN.
\* The averages are within one part in 2^53 of the quotients and so are the sum
\* and the difference, so that the comparison is the one of the exact values
\* unless these are equal: averages exactly 600 apart are compared as the
\* doubles they are.
DebtTrendOf(recentSum, recentN, olderSum, olderN) ==
    LET recent == recentSum * olderN
        above  == (olderSum + TrendThreshold * olderN) * recentN
        below  == (olderSum - TrendThreshold * olderN) * recentN
    IN  IF recent = above \/ recent = below
        THEN DebtTrendOfAverages(DDiv(DInt(recentSum), DInt(recentN)),
                                 DDiv(DInt(olderSum), DInt(olderN)))
        ELSE IF recent > above THEN "recovering"
        ELSE IF recent < below THEN "accumulating"
        ELSE "stable"

\* the halves compared as soon as there are two sessions
DebtTrend_fromTwo(sessions) ==
    IF Len(sessions) >= 2
    THEN LET mid    == Len(sessions) \div 2
             recent == Field(SliceFrom(sessions, mid), TotalSleepDuration)
             older  == Field(Slice(sessions, 0, mid), TotalSleepDuration)
         IN  DebtTrendOf(Sum(recent), Len(sessions) - mid, Sum(older), mid)
    ELSE "stable"

DebtTrend(sessions) ==
    IF Len(sessions) >= 4
    THEN LET mid    == Len(sessions) \div 2
             recent == Field(SliceFrom(sessions, mid), TotalSleepDuration)
             older  == Field(Slice(sessions, 0, mid), TotalSleepDuration)
         IN  DebtTrendOf(Sum(recent), Len(sessions) - mid, Sum(older), mid)
    ELSE "stable"

\* a slip that would estimate recovery at an hour, not half an hour, per night
DaysToRecover_hourly(currentDebtMinutes) ==
    IF currentDebtMinutes > 0 THEN CeilDiv(currentDebtMinutes, 60) ELSE 0

\* currentDebtMinutes > 0 ? Math.ceil(currentDebtMinutes / 30) : 0
DaysToRecover(currentDebtMinutes) ==
    IF currentDebtMinutes > 0 THEN CeilDiv(currentDebtMinutes, 30) ELSE 0

analyzeSleepDebt(sessions, targetMinutes) ==
    IF Len(sessions) = 0
    THEN [currentDebtMinutes |-> 0, weeklyAverageMinutes |-> 0,
          targetMinutes |-> targetMinutes, trend |-> "stable", daysToRecover |-> 0]
    ELSE LET targetSeconds == targetMinutes * 60
             currentDebtMinutes == RoundDiv(TotalDebt(sessions, targetSeconds), 60)
         IN  [currentDebtMinutes |-> Max(0, currentDebtMinutes),
              weeklyAverageMinutes |-> WeeklyAverageMinutes(sessions),
              targetMinutes |-> targetMinutes,
              trend |-> DebtTrend(sessions),
              daysToRecover |-> DaysToRecover(currentDebtMinutes)]

----------------------------------------------------------------------------
(* Comparisons of quotients *)

\* An average sum / n of whole numbers is one division, which gives the double
\* nearest to the quotient: it compares with a whole number k as the quotient
\* itself does, sum >= k * n, the rounding keeping the order and k being a
\* double.  The same holds for a second division by a whole number, as in
\* sum / n / 60.  Where a result of two or more roundings is compared, or
\* rounded, the doubles are computed whenever the exact value stands on the
\* threshold.

\* num / den >= p / q as JavaScript evaluates it (q > 0, p >= 0): a zero
\* denominator gives Infinity, -Infinity or NaN, and NaN compares false.  One
\* division gives the double nearest to num / den, and the literal is the double
\* nearest to p / q, so that equal fractions are equal doubles.
RatioAtLeast(num, den, p, q) ==
    IF den > 0 THEN num * q >= p * den
    ELSE IF den < 0 THEN num * q <= p * den
    ELSE num > 0

\* ratio = recent / baseline for recent = recentSum / recentN and
\* baseline = baseSum / baseN, the double: three divisions
MeanRatio(recentSum, recentN, baseSum, baseN) ==
    DDiv(DDiv(DInt(recentSum), DInt(recentN)), DDiv(DInt(baseSum), DInt(baseN)))

\* whether that ratio is exactly p / 100.  The double is within three parts in
\* 2^53 of the exact ratio, so that it compares with the literals of the tiers
\* as the exact ratio does unless this is one of them.
MeanRatioIs(recentSum, recentN, baseSum, baseN, p) ==
    baseSum # 0 /\ 100 * recentSum * baseN = p * recentN * baseSum

\* ratio >= p / 100 for a ratio that is not p / 100
MeanRatioAtLeast(recentSum, recentN, baseSum, baseN, p) ==
    RatioAtLeast(recentSum * baseN, recentN * baseSum, p, 100)

----------------------------------------------------------------------------
(* SleepAnalyzer.scoreSleepQuality *)

IDEAL_SLEEP_DURATION == 8 * 3600
IDEAL_EFFICIENCY == 90
IDEAL_LATENCY == 15 * 60

\* the duration scored in proportion to the ideal, without tiers
scoreDuration_proportional(durationSeconds) ==
    RoundDiv(durationSeconds * 100, IDEAL_SLEEP_DURATION)

\* ratio = durationSeconds / IDEAL_SLEEP_DURATION
scoreDuration(durationSeconds) ==
    LET AtLeast(p) == durationSeconds * 100 >= p * IDEAL_SLEEP_DURATION
        AtMost(p)  == durationSeconds * 100 <= p * IDEAL_SLEEP_DURATION
    IN  IF AtLeast(95) /\ AtMost(110) THEN 100
        ELSE IF AtLeast(85) /\ AtMost(120) THEN 80
        ELSE IF AtLeast(75) THEN 60
        ELSE IF AtLeast(60) THEN 40
        ELSE 20

\* an efficiency above 100 taken as unreliable and scored lowest
scoreEfficiency_band(efficiency) ==
    IF efficiency > 100 THEN 20
    ELSE IF efficiency >= IDEAL_EFFICIENCY THEN 100
    ELSE IF efficiency >= 85 THEN 80
    ELSE IF efficiency >= 80 THEN 60
    ELSE IF efficiency >= 70 THEN 40
    ELSE 20

scoreEfficiency(efficiency) ==
    IF efficiency >= IDEAL_EFFICIENCY THEN 100
    ELSE IF efficiency >= 85 THEN 80
    ELSE IF efficiency >= 80 THEN 60
    ELSE IF efficiency >= 70 THEN 40
    ELSE 20

\* the ratio taken without looking at a zero total first
scoreDeepSleep_noZeroGuard(deepSeconds, totalSeconds) ==
    IF RatioAtLeast(deepSeconds, totalSeconds, 20, 100) THEN 100
    ELSE IF RatioAtLeast(deepSeconds, totalSeconds, 15, 100) THEN 80
    ELSE IF RatioAtLeast(deepSeconds, totalSeconds, 10, 100) THEN 60
    ELSE IF RatioAtLeast(deepSeconds, totalSeconds, 5, 100) THEN 40
    ELSE 20

\* ratio = deepSeconds / totalSeconds, IDEAL_DEEP_PERCENT = 0.20
scoreDeepSleep(deepSeconds, totalSeconds) ==
    IF totalSeconds = 0 THEN 0
    ELSE IF RatioAtLeast(deepSeconds, totalSeconds, 20, 100) THEN 100
    ELSE IF RatioAtLeast(deepSeconds, totalSeconds, 15, 100) THEN 80
    ELSE IF RatioAtLeast(deepSeconds, totalSeconds, 10, 100) THEN 60
    ELSE IF RatioAtLeast(deepSeconds, totalSeconds, 5, 100) THEN 40
    ELSE 20

\* ratio = remSeconds / totalSeconds, IDEAL_REM_PERCENT = 0.25
scoreRemSleep(remSeconds, totalSeconds) ==
    IF totalSeconds = 0 THEN 0
    ELSE IF RatioAtLeast(remSeconds, totalSeconds, 25, 100) THEN 100
    ELSE IF RatioAtLeast(remSeconds, totalSeconds, 20, 100) THEN 80
    ELSE IF RatioAtLeast(remSeconds, totalSeconds, 15, 100) THEN 60
    ELSE IF RatioAtLeast(remSeconds, totalSeconds, 10, 100) THEN 40
    ELSE 20

scoreLatency(latencySeconds) ==
    IF latencySeconds <= IDEAL_LATENCY THEN 100
    ELSE IF latencySeconds <= 30 * 60 THEN 80
    ELSE IF latencySeconds <= 45 * 60 THEN 60
    ELSE IF latencySeconds <= 60 * 60 THEN 40
    ELSE 20

\* the thresholds of the training recommendation, taken for the rating
getRating_readinessTiers(score) ==
    IF score >= 80 THEN "excellent"
    ELSE IF score >= 60 THEN "good"
    ELSE IF score >= 40 THEN "fair"
    ELSE "poor"

getRating(score) ==
    IF score >= 85 THEN "excellent"
    ELSE IF score >= 70 THEN "good"
    ELSE IF score >= 50 THEN "fair"
    ELSE "poor"

scoreSleepQuality(session) ==
    LET durationScore    == scoreDuration(session.totalSleepDuration)
        efficiencyScore  == scoreEfficiency(session.efficiency)
        deepSleepScore   == scoreDeepSleep(session.deepSleepDuration,
                                           session.totalSleepDuration)
        remSleepScore    == scoreRemSleep(session.remSleepDuration,
                                          session.totalSleepDuration)
        latencyScore     == scoreLatency(session.latency)
        consistencyScore == 50
        \* Math.round of the weighted sum; the weights are
        \* 0.25, 0.20, 0.20, 0.15, 0.10, 0.10
        overall == RoundDiv(durationScore * 25
                            + efficiencyScore * 20
                            + deepSleepScore * 20
                            + remSleepScore * 15
                            + latencyScore * 10
                            + consistencyScore * 10, 100)
    IN  [overall          |-> overall,
         durationScore    |-> durationScore,
         efficiencyScore  |-> efficiencyScore,
         deepSleepScore   |-> deepSleepScore,
         remSleepScore    |-> remSleepScore,
         latencyScore     |-> latencyScore,
         consistencyScore |-> consistencyScore,
         rating           |-> getRating(overall)]

----------------------------------------------------------------------------
(* SleepAnalyzer.scoreSleepConsistency *)

\* An instant (bedtimeStart, bedtimeEnd) is a count of minutes since the epoch,
\* and new Date(...) shows it on the clock of the host at that instant. The
\* time zone of the host is the offset of its clock from UTC, in minutes, and
\* the changes of that offset (summer time begins or ends), each at an instant
\* and in order of time.

\* the minutes the host's clock is ahead of UTC at an instant: the offset of
\* the last change that is not after the instant
OffsetAt(timeZone, instant) ==
    LET past == {k \in 1..Len(timeZone.changes) : timeZone.changes[k].at <= instant}
    IN  IF past = {} THEN timeZone.offset
        ELSE timeZone.changes[CHOOSE k \in past : \A other \in past : other <= k].offset

\* d.getHours() and d.getMinutes()
getHours(instant, timeZone) == ((instant + OffsetAt(timeZone, instant)) % 1440) \div 60
getMinutes(instant, timeZone) == (instant + OffsetAt(timeZone, instant)) % 60

\* d.getHours() * 60 + d.getMinutes()
MinuteOfDay(instant, timeZone) ==
    getHours(instant, timeZone) * 60 + getMinutes(instant, timeZone)

\* standardDeviation(values) squared, as the fraction num / den: with n values
\* of sum S, v - mean = (n * v - S) / n, and the mean of the squares is
\* (sum of (n * v - S)^2) / n^3
standardDeviationSquared(values) ==
    LET n == Len(values)
        S == Sum(values)
    IN  [num |-> Sum([i \in 1..n |-> (n * values[i] - S) * (n * values[i] - S)]),
         den |-> n * n * n]

\* the sum of the squared differences of the first i values from the mean, the
\* double: values.map(v => (v - mean) ** 2).reduce((a, b) => a + b, 0)
RECURSIVE SquaredDiffs(_, _, _)
SquaredDiffs(values, mean, i) ==
    IF i = 0 THEN DZero
    ELSE DAdd(SquaredDiffs(values, mean, i - 1), DSquare(DSub(DInt(values[i]), mean)))

\* Math.sqrt(sum of the squared differences from the mean / values.length), the
\* mean being computed first
RootMeanSquare(values, mean) ==
    Last(<<mean, DSqrt(DDiv(SquaredDiffs(values, mean, Len(values)), DInt(Len(values))))>>)

\* standardDeviation(values), the double
standardDeviation(values) ==
    RootMeanSquare(values, DDiv(DInt(Sum(values)), DInt(Len(values))))

\* Math.max(0, Math.round(100 - (stdDev / 120) * 100)): the rounding is at
\* least k exactly when stdDev * 5 / 6 <= 100.5 - k, that is, squared, when
\* 25 * num / (36 * den) <= (201 - 2k)^2 / 4, for k from 0 to 100; a standard
\* deviation of exactly 1.2 * (100.5 - k) is rounded as the double it is
ConsistencyOf(values) ==
    LET var == standardDeviationSquared(values)
        K   == {k \in 0..100 :
                   25 * var.num <= 9 * var.den * (201 - 2 * k) * (201 - 2 * k)}
        H   == {k \in 0..100 :
                   25 * var.num = 9 * var.den * (201 - 2 * k) * (201 - 2 * k)}
    IN  IF H # {}
        THEN Max(0, DRound(DSub(DInt(100),
                                DMul(DDiv(standardDeviation(values), DInt(120)),
                                     DInt(100)))))
        ELSE IF K = {} THEN 0 ELSE CHOOSE k \in K : (k + 1) \notin K

\* fewer than 2 sessions, not 3, taken as too few
scoreSleepConsistency_fromTwo(sessions, timeZone) ==
    IF Len(sessions) < 2 THEN 50
    ELSE LET bedtimes  == [i \in 1..Len(sessions) |->
                              MinuteOfDay(sessions[i].bedtimeStart, timeZone)]
             wakeTimes == [i \in 1..Len(sessions) |->
                              MinuteOfDay(sessions[i].bedtimeEnd, timeZone)]
         IN  RoundDiv(ConsistencyOf(bedtimes) + ConsistencyOf(wakeTimes), 2)

\* sessions, and the time zone of the host the call runs on
scoreSleepConsistency(sessions, timeZone) ==
    IF Len(sessions) < 3 THEN 50
    ELSE LET bedtimes  == [i \in 1..Len(sessions) |->
                              MinuteOfDay(sessions[i].bedtimeStart, timeZone)]
             wakeTimes == [i \in 1..Len(sessions) |->
                              MinuteOfDay(sessions[i].bedtimeEnd, timeZone)]
         IN  RoundDiv(ConsistencyOf(bedtimes) + ConsistencyOf(wakeTimes), 2)

----------------------------------------------------------------------------
(* ReadinessAnalyzer *)

Timestamp(r) == r.timestamp
Hrv(r) == r.hrv
Bpm(r) == r.bpm
Score(r) == r.score

\* values.length < 7: score on the absolute value, avg = sum / n
HRVAbsolute(sum, n) ==
    IF sum >= 60 * n THEN 90
    ELSE IF sum >= 40 * n THEN 70
    ELSE IF sum >= 25 * n THEN 50
    ELSE 30

\* the tiers of the ratio, a double
HRVRatioOf(ratio) ==
    IF DCmp(ratio, DLiteral(105, 100)) >= 0 THEN 95
    ELSE IF DCmp(ratio, DLiteral(95, 100)) >= 0 THEN 80
    ELSE IF DCmp(ratio, DLiteral(85, 100)) >= 0 THEN 60
    ELSE IF DCmp(ratio, DLiteral(75, 100)) >= 0 THEN 40
    ELSE 25

\* ratio = recent / baseline, recent = recentSum / 3, baseline = baseSum / baseN;
\* a ratio of exactly 1.05, 0.95, 0.85 or 0.75 is compared as the double it is
HRVRatio(recentSum, baseSum, baseN) ==
    IF \E p \in {105, 95, 85, 75} : MeanRatioIs(recentSum, 3, baseSum, baseN, p)
    THEN HRVRatioOf(MeanRatio(recentSum, 3, baseSum, baseN))
    ELSE IF MeanRatioAtLeast(recentSum, 3, baseSum, baseN, 105) THEN 95
    ELSE IF MeanRatioAtLeast(recentSum, 3, baseSum, baseN, 95) THEN 80
    ELSE IF MeanRatioAtLeast(recentSum, 3, baseSum, baseN, 85) THEN 60
    ELSE IF MeanRatioAtLeast(recentSum, 3, baseSum, baseN, 75) THEN 40
    ELSE 25

\* the status of a non-empty samples array
HRVStatus(items) ==
    LET sorted == SortBy(Timestamp, items)
        values == Field(sorted, Hrv)
    IN  IF Len(values) < 7
        THEN HRVAbsolute(Sum(values), Len(values))
        ELSE HRVRatio(Sum(SliceFrom(values, -3)),
                      Sum(Slice(values, 0, -3)), Len(values) - 3)

\* a guard that tests only for undefined: an empty array falls through to the
\* average of no values, NaN, which fails every comparison
scoreHRV_noEmptyGuard(samples) ==
    IF ~samples.present THEN 50
    ELSE IF Len(samples.items) = 0 THEN 30
    ELSE HRVStatus(samples.items)

scoreHRV(samples) ==
    IF Missing(samples) THEN 50 ELSE HRVStatus(samples.items)

\* deepPercent >= p / q, deepPercent = total > 0 ? deep / total : 0
DeepPercentAtLeast(session, p, q) ==
    IF session.totalSleepDuration > 0
    THEN session.deepSleepDuration * q >= p * session.totalSleepDuration
    ELSE FALSE

Readiness_scoreSleep(sessions) ==
    IF Missing(sessions) THEN 50
    ELSE LET sorted    == SortByDay(sessions.items)
             lastNight == sorted[Len(sorted)]
             \* durationHours = totalSleepDuration / 3600
             duration  == IF lastNight.totalSleepDuration * 10 >= 75 * 3600 THEN 20
                          ELSE IF lastNight.totalSleepDuration >= 7 * 3600 THEN 15
                          ELSE IF lastNight.totalSleepDuration >= 6 * 3600 THEN 5
                          ELSE 0 - 15
             efficiency == IF lastNight.efficiency >= 90 THEN 20
                           ELSE IF lastNight.efficiency >= 85 THEN 15
                           ELSE IF lastNight.efficiency >= 80 THEN 5
                           ELSE 0 - 10
             deep      == IF DeepPercentAtLeast(lastNight, 20, 100) THEN 10
                          ELSE IF DeepPercentAtLeast(lastNight, 15, 100) THEN 5
                          ELSE 0 - 5
         IN  Max(0, Min(100, 50 + duration + efficiency + deep))

scoreRecovery(readiness) ==
    IF Missing(readiness) THEN 50
    ELSE LET sorted == SortByDay(readiness.items)
         IN  sorted[Len(sorted)].score

\* one more tier below 40, for an average above 75 bpm
scoreRestingHR_extraTier(samples) ==
    IF Missing(samples) THEN 50
    ELSE LET sorted == SortBy(Bpm, samples.items)
             k      == Max(1, (Len(sorted) * 5) \div 100)
             sum    == Sum(Field(Slice(sorted, 0, k), Bpm))
         IN  IF sum <= 50 * k THEN 95
             ELSE IF sum <= 55 * k THEN 85
             ELSE IF sum <= 60 * k THEN 75
             ELSE IF sum <= 65 * k THEN 65
             ELSE IF sum <= 70 * k THEN 55
             ELSE IF sum <= 75 * k THEN 40
             ELSE 25

scoreRestingHR(samples) ==
    IF Missing(samples) THEN 50
    ELSE LET sorted == SortBy(Bpm, samples.items)
             \* Math.max(1, Math.floor(sorted.length * 0.05))
             k      == Max(1, (Len(sorted) * 5) \div 100)
             sum    == Sum(Field(Slice(sorted, 0, k), Bpm))
         IN  IF sum <= 50 * k THEN 95
             ELSE IF sum <= 55 * k THEN 85
             ELSE IF sum <= 60 * k THEN 75
             ELSE IF sum <= 65 * k THEN 65
             ELSE IF sum <= 70 * k THEN 55
             ELSE 40

scoreActivityBalance(activity) ==
    IF FewerThan(activity, 3) THEN 50
    ELSE LET sorted == SortByDay(activity.items)
             recent == SliceFrom(sorted, -3)
             n      == Len(recent)
             sum    == Sum(Field(recent, Score))
         IN  IF sum >= 70 * n /\ sum <= 85 * n THEN 90
             ELSE IF sum >= 60 * n /\ sum <= 90 * n THEN 75
             ELSE IF sum >= 50 * n THEN 60
             ELSE IF sum >= 40 * n THEN 45
             ELSE 35

scoreSleepDebt(sessions) ==
    IF FewerThan(sessions, 3) THEN 50
    ELSE LET targetDuration == 8 * 3600
             sorted    == SortByDay(sessions.items)
             recent    == SliceFrom(sorted, -7)
             n         == Len(recent)
             totalDebt == Sum([i \in 1..n |->
                              Max(0, targetDuration - recent[i].totalSleepDuration)])
             \* avgDebtMinutes = totalDebt / n / 60
         IN  IF totalDebt <= 15 * 60 * n THEN 95
             ELSE IF totalDebt <= 30 * 60 * n THEN 80
             ELSE IF totalDebt <= 60 * 60 * n THEN 60
             ELSE IF totalDebt <= 90 * 60 * n THEN 40
             ELSE 25

getRecommendation(score) ==
    IF score >= 80 THEN "go_hard"
    ELSE IF score >= 60 THEN "moderate"
    ELSE IF score >= 40 THEN "easy_day"
    ELSE "rest"

\* the parts that getDetails joins with a space
getDetails(score, factors) ==
    << IF score >= 80
           THEN "Body is well recovered and ready for high-intensity training."
       ELSE IF score >= 60
           THEN "Moderate readiness. Steady-state or technique work recommended."
       ELSE IF score >= 40
           THEN "Below average readiness. Light activity or active recovery advised."
       ELSE "Low readiness. Rest day recommended to support recovery." >>
    \o (IF factors.hrvStatus < 40 THEN <<"HRV is below baseline.">> ELSE <<>>)
    \o (IF factors.sleepQuality < 40 THEN <<"Sleep quality was poor last night.">> ELSE <<>>)
    \o (IF factors.sleepDebt < 40 THEN <<"Accumulated sleep debt detected.">> ELSE <<>>)
    \o (IF factors.restingHeartRate < 40 THEN <<"Resting heart rate is elevated.">> ELSE <<>>)

\* the plain mean of the six factors, every factor weighing the same
ReadinessScore_equalWeights(factors) ==
    RoundDiv(factors.hrvStatus + factors.sleepQuality + factors.recoveryLevel
             + factors.restingHeartRate + factors.activityBalance + factors.sleepDebt, 6)

\* Math.round of the weighted sum; the weights are 0.25, 0.25, 0.15, 0.15, 0.10, 0.10.
\* The sum of the doubles is within 2^-44 of the exact sum, a multiple of 0.05,
\* and on the halves it rounds as the exact sum does for every value the
\* factors take.
ReadinessScore(factors) ==
    RoundDiv(factors.hrvStatus * 25
             + factors.sleepQuality * 25
             + factors.recoveryLevel * 15
             + factors.restingHeartRate * 15
             + factors.activityBalance * 10
             + factors.sleepDebt * 10, 100)

calculateTrainingReadiness(params) ==
    LET factors == [hrvStatus        |-> scoreHRV(params.hrv),
                    sleepQuality     |-> Readiness_scoreSleep(params.sleep),
                    recoveryLevel    |-> scoreRecovery(params.readiness),
                    restingHeartRate |-> scoreRestingHR(params.heartRate),
                    activityBalance  |-> scoreActivityBalance(params.activity),
                    sleepDebt        |-> scoreSleepDebt(params.sleep)]
        score   == ReadinessScore(factors)
    IN  [score |-> score,
         factors |-> factors,
         recommendation |-> getRecommendation(score),
         details |-> getDetails(score, factors)]

----------------------------------------------------------------------------
(* RecoveryAnalyzer *)

Recovery_scoreSleep(sessions) ==
    IF Missing(sessions) THEN 50
    ELSE LET sorted == SortByDay(sessions.items)
             last   == sorted[Len(sorted)]
             \* hoursSlept = totalSleepDuration / 3600
             duration == IF last.totalSleepDuration >= 8 * 3600 THEN 40
                         ELSE IF last.totalSleepDuration >= 7 * 3600 THEN 35
                         ELSE IF last.totalSleepDuration >= 6 * 3600 THEN 25
                         ELSE IF last.totalSleepDuration >= 5 * 3600 THEN 15
                         ELSE 5
             efficiency == IF last.efficiency >= 92 THEN 30
                           ELSE IF last.efficiency >= 87 THEN 25
                           ELSE IF last.efficiency >= 82 THEN 20
                           ELSE IF last.efficiency >= 75 THEN 10
                           ELSE 5
             deep     == IF DeepPercentAtLeast(last, 22, 100) THEN 30
                         ELSE IF DeepPercentAtLeast(last, 18, 100) THEN 25
                         ELSE IF DeepPercentAtLeast(last, 13, 100) THEN 18
                         ELSE IF DeepPercentAtLeast(last, 8, 100) THEN 10
                         ELSE 5
         IN  Min(100, duration + efficiency + deep)

\* values.length < 7: score on absolute HRV, avg = sum / n
HRVTrendAbsolute(sum, n) ==
    IF sum >= 65 * n THEN 90
    ELSE IF sum >= 50 * n THEN 75
    ELSE IF sum >= 35 * n THEN 55
    ELSE IF sum >= 20 * n THEN 35
    ELSE 20

\* the tiers of the ratio, a double
HRVTrendRatioOf(ratio) ==
    IF DCmp(ratio, DLiteral(110, 100)) >= 0 THEN 95
    ELSE IF DCmp(ratio, DInt(1)) >= 0 THEN 80
    ELSE IF DCmp(ratio, DLiteral(90, 100)) >= 0 THEN 65
    ELSE IF DCmp(ratio, DLiteral(80, 100)) >= 0 THEN 45
    ELSE 25

\* ratio = recent / baseline, recent = recentSum / recentN, baseline = baseSum / baseN;
\* a ratio of exactly 1.10, 0.90 or 0.80 is compared as the double it is (equal
\* averages are equal doubles, of ratio 1.0)
HRVTrendRatio(recentSum, recentN, baseSum, baseN) ==
    IF \E p \in {110, 90, 80} : MeanRatioIs(recentSum, recentN, baseSum, baseN, p)
    THEN HRVTrendRatioOf(MeanRatio(recentSum, recentN, baseSum, baseN))
    ELSE IF MeanRatioAtLeast(recentSum, recentN, baseSum, baseN, 110) THEN 95
    ELSE IF MeanRatioAtLeast(recentSum, recentN, baseSum, baseN, 100) THEN 80
    ELSE IF MeanRatioAtLeast(recentSum, recentN, baseSum, baseN, 90) THEN 65
    ELSE IF MeanRatioAtLeast(recentSum, recentN, baseSum, baseN, 80) THEN 45
    ELSE 25

scoreHRVTrend(samples) ==
    IF FewerThan(samples, 3) THEN 50
    ELSE LET sorted == SortBy(Timestamp, samples.items)
             values == Field(sorted, Hrv)
         IN  IF Len(values) < 7
             THEN HRVTrendAbsolute(Sum(values), Len(values))
             ELSE LET recentWindow   == Min(3, Len(values))
                      baselineWindow == Min(14, Len(values))
                  IN  HRVTrendRatio(Sum(SliceFrom(values, 0 - recentWindow)), recentWindow,
                                    Sum(SliceFrom(values, 0 - baselineWindow)), baselineWindow)

\* sorted.filter(s => s.lowestHeartRate !== undefined).map(s => s.lowestHeartRate!)
RECURSIVE RestingHRs(_)
RestingHRs(sorted) ==
    IF Len(sorted) = 0 THEN <<>>
    ELSE Head(sorted).lowestHeartRate \o RestingHRs(Tail(sorted))

\* the tiers of diff, a double
RestingHRTrendOfDiff(diff) ==
    IF DCmp(diff, DInt(3)) >= 0 THEN 90
    ELSE IF DCmp(diff, DInt(1)) >= 0 THEN 75
    ELSE IF DCmp(diff, DInt(0 - 1)) >= 0 THEN 60
    ELSE IF DCmp(diff, DInt(0 - 3)) >= 0 THEN 40
    ELSE 25

\* diff = baseline - recent, recent = sum of the last 3 / 3, baseline = sum / n.
\* Exactly, diff >= d  <=>  3 * sum - n * recentSum >= d * 3 * n, and the
\* double is within two parts in 2^52 of the averages from the exact
\* difference: a difference of exactly 3, 1, -1 or -3 is compared as the double
\* it is.
RestingHRTrendOf(restingHRs) ==
    LET n         == Len(restingHRs)
        recentSum == Sum(SliceFrom(restingHRs, -3))
        scaled    == 3 * Sum(restingHRs) - n * recentSum
    IN  IF \E d \in {3, 1, 0 - 1, 0 - 3} : scaled = d * 3 * n
        THEN RestingHRTrendOfDiff(DSub(DDiv(DInt(Sum(restingHRs)), DInt(n)),
                                       DDiv(DInt(recentSum), DInt(3))))
        ELSE IF scaled >= 3 * 3 * n THEN 90
        ELSE IF scaled >= 1 * 3 * n THEN 75
        ELSE IF scaled >= (0 - 1) * 3 * n THEN 60
        ELSE IF scaled >= (0 - 3) * 3 * n THEN 40
        ELSE 25

\* without the second guard: two readings are averaged as if they were three
scoreRestingHRTrend_noSecondGuard(sessions) ==
    IF FewerThan(sessions, 3) THEN 50
    ELSE RestingHRTrendOf(RestingHRs(SortByDay(sessions.items)))

scoreRestingHRTrend(sessions) ==
    IF FewerThan(sessions, 3) THEN 50
    ELSE LET restingHRs == RestingHRs(SortByDay(sessions.items))
         IN  IF Len(restingHRs) < 3 THEN 50 ELSE RestingHRTrendOf(restingHRs)

\* scores.slice(-7, -3)
PreviousPeriod(scores) == Slice(scores, -7, -3)

\* the tiers of recent against previousAvg times 0.7, 0.85, 1.0 and 1.15, on
\* the doubles
StrainTierOf(recent, previousAvg) ==
    IF DCmp(recent, DMul(previousAvg, DLiteral(70, 100))) < 0 THEN 90
    ELSE IF DCmp(recent, DMul(previousAvg, DLiteral(85, 100))) < 0 THEN 75
    ELSE IF DCmp(recent, DMul(previousAvg, DInt(1))) < 0 THEN 60
    ELSE IF DCmp(recent, DMul(previousAvg, DLiteral(115, 100))) < 0 THEN 45
    ELSE 30

\* the same for recent = recentSum / 3 and previousAvg = prevSum / prevN.  The
\* doubles are within a few parts in 2^53 of the exact values: a recent average
\* of exactly 0.7, 0.85, 1.0 or 1.15 times the previous one is compared as the
\* double it is with the double of the product.
StrainTier(recentSum, prevSum, prevN) ==
    IF \E p \in {70, 85, 100, 115} : 100 * recentSum * prevN = 3 * p * prevSum
    THEN StrainTierOf(DDiv(DInt(recentSum), DInt(3)), DDiv(DInt(prevSum), DInt(prevN)))
    ELSE IF 100 * recentSum * prevN < 3 * 70 * prevSum THEN 90
    ELSE IF 100 * recentSum * prevN < 3 * 85 * prevSum THEN 75
    ELSE IF 100 * recentSum * prevN < 3 * 100 * prevSum THEN 60
    ELSE IF 100 * recentSum * prevN < 3 * 115 * prevSum THEN 45
    ELSE 30

\* the previous period taken only when all four of its days exist
scoreStrainBalance_fullWeekOnly(activity) ==
    IF FewerThan(activity, 3) THEN 50
    ELSE LET scores   == Field(SortByDay(activity.items), Score)
             previous == PreviousPeriod(scores)
         IN  IF Len(scores) < 7 THEN 50
             ELSE StrainTier(Sum(SliceFrom(scores, -3)), Sum(previous), Len(previous))

scoreStrainBalance(activity) ==
    IF FewerThan(activity, 3) THEN 50
    ELSE LET scores   == Field(SortByDay(activity.items), Score)
             previous == PreviousPeriod(scores)
         IN  IF Len(previous) = 0 THEN 50
             ELSE StrainTier(Sum(SliceFrom(scores, -3)), Sum(previous), Len(previous))

getStatus(score) ==
    IF score >= 80 THEN "fully_recovered"
    ELSE IF score >= 60 THEN "mostly_recovered"
    ELSE IF score >= 40 THEN "partially_recovered"
    ELSE "not_recovered"

\* Math.round of the weighted sum; the weights are 0.35, 0.30, 0.20, 0.15.
\* The sum of the doubles is within 2^-44 of the exact sum, a multiple of 0.05,
\* and on the halves it rounds as the exact sum does for every value the
\* factors take.
RecoveryScoreOf(factors) ==
    RoundDiv(factors.sleepScore * 35
             + factors.hrvTrend * 30
             + factors.restingHRTrend * 20
             + factors.strainBalance * 15, 100)

calculateRecovery(params) ==
    LET factors == [sleepScore     |-> Recovery_scoreSleep(params.sleep),
                    hrvTrend       |-> scoreHRVTrend(params.hrv),
                    restingHRTrend |-> scoreRestingHRTrend(params.sleep),
                    strainBalance  |-> scoreStrainBalance(params.activity)]
        score   == RecoveryScoreOf(factors)
    IN  [score |-> score, status |-> getStatus(score), factors |-> factors]

----------------------------------------------------------------------------
(* TrendAnalyzer.analyzeTrend *)

Value(r) == r.value

\* The exact percentChange of the averages curSum / curN and prevSum / prevN is
\* 100 * num / den for num = curSum * prevN - prevSum * curN and den = prevSum * curN.

\* percentChange >= p, when 100 * num / den is not p
PercentAtLeast(num, den, p) ==
    IF den > 0 THEN 100 * num >= p * den ELSE 100 * num <= p * den
\* percentChange <= p, when 100 * num / den is not p
PercentAtMost(num, den, p) ==
    IF den > 0 THEN 100 * num <= p * den ELSE 100 * num >= p * den

\* ((currentAverage - previousAverage) / previousAverage) * 100, the double
PercentChangeOf(currentAverage, previousAverage) ==
    DMul(DDiv(DSub(currentAverage, previousAverage), previousAverage), DInt(100))
PercentChange(curSum, curN, prevSum, prevN) ==
    PercentChangeOf(DDiv(DInt(curSum), DInt(curN)), DDiv(DInt(prevSum), DInt(prevN)))

\* getDirection(percentChange), on the double
DirectionOfPercent(percentChange) ==
    IF DCmp(percentChange, DInt(5)) >= 0 THEN "improving"
    ELSE IF DCmp(percentChange, DInt(0 - 5)) <= 0 THEN "declining"
    ELSE "stable"

\* getDirection(percentChange) for a previous average that is not 0; a change of
\* exactly 5 or -5 percent is compared as the double it is
DirectionOf(curSum, curN, prevSum, prevN) ==
    LET num == curSum * prevN - prevSum * curN
        den == prevSum * curN
    IN  IF 100 * num = 5 * den \/ 100 * num = (0 - 5) * den
        THEN DirectionOfPercent(PercentChange(curSum, curN, prevSum, prevN))
        ELSE IF PercentAtLeast(num, den, 5) THEN "improving"
        ELSE IF PercentAtMost(num, den, 0 - 5) THEN "declining"
        ELSE "stable"

\* getDirection(percentChange) for the percentChange of two averages, which is
\* 0 when the previous average is 0
getDirection(curSum, curN, prevSum, prevN) ==
    IF prevSum = 0 THEN "stable" ELSE DirectionOf(curSum, curN, prevSum, prevN)

\* n / d lies halfway between two integers (d > 0)
Halfway(n, d) == 2 * (n % d) = d

\* Math.round(avg * 100) / 100 for avg = n / d, d > 0, in hundredths; a product
\* that would be halfway between two integers is rounded as the double it is
Round2(n, d) ==
    IF Halfway(100 * n, d) THEN DRound(DMul(DDiv(DInt(n), DInt(d)), DInt(100)))
    ELSE RoundDiv(100 * n, d)

\* Math.round(percentChange * 100) / 100, in hundredths
RoundedPercentChange(curSum, curN, prevSum, prevN) ==
    LET num == curSum * prevN - prevSum * curN
        den == prevSum * curN
    IN  IF den = 0 THEN 0
        ELSE IF (IF den > 0 THEN Halfway(100 * 100 * num, den)
                            ELSE Halfway(0 - 100 * 100 * num, 0 - den))
        THEN DRound(DMul(PercentChange(curSum, curN, prevSum, prevN), DInt(100)))
        ELSE RoundDiv(100 * 100 * num, den)

\* the split taken on the array as the caller listed it
SortedPoints_asListed(dataPoints) == dataPoints

\* [...dataPoints].sort((a, b) => a.day.localeCompare(b.day))
SortedPoints(dataPoints) == SortByDay(dataPoints)

analyzeTrend(metric, dataPoints, periodDays) ==
    IF Len(dataPoints) = 0
    THEN [metric |-> metric, period |-> periodDays, direction |-> "stable",
          currentAverage |-> 0, previousAverage |-> 0, percentChange |-> 0,
          dataPoints |-> <<>>]
    ELSE LET sorted       == SortedPoints(dataPoints)
             mid          == Len(sorted) \div 2
             recentHalf   == SliceFrom(sorted, mid)
             previousHalf == Slice(sorted, 0, mid)
             \* currentAverage = curSum / curN; recentHalf is never empty here
             curSum  == Sum(Field(recentHalf, Value))
             curN    == Len(recentHalf)
             \* previousAverage = prevSum / prevN, the current one for an empty half
             prevSum == IF Len(previousHalf) > 0 THEN Sum(Field(previousHalf, Value))
                                                 ELSE curSum
             prevN   == IF Len(previousHalf) > 0 THEN Len(previousHalf) ELSE curN
         IN  [metric |-> metric,
              period |-> periodDays,
              direction |-> getDirection(curSum, curN, prevSum, prevN),
              currentAverage |-> Round2(curSum, curN),
              previousAverage |-> Round2(prevSum, prevN),
              percentChange |-> RoundedPercentChange(curSum, curN, prevSum, prevN),
              dataPoints |-> sorted]

\* metrics.map(m => this.analyzeTrend(m.name, m.dataPoints, periodDays))
analyzeMultipleMetrics(metrics, periodDays) ==
    [i \in 1..Len(metrics) |->
        analyzeTrend(metrics[i].name, metrics[i].dataPoints, periodDays)]

----------------------------------------------------------------------------
(* TrendAnalyzer.calculateMovingAverage *)

\* a window of always windowSize points, the missing early ones counted as 0
Window_padded(sorted, i, windowSize) ==
    LET window == Slice(sorted, Max(0, i - windowSize + 1), i + 1)
    IN  [k \in 1..windowSize |->
            IF k <= windowSize - Len(window)
            THEN [day |-> 0, value |-> 0]
            ELSE window[k - (windowSize - Len(window))]]

\* the window of index i (from 0): sorted.slice(Math.max(0, i - windowSize + 1), i + 1)
Window(sorted, i, windowSize) ==
    Slice(sorted, Max(0, i - windowSize + 1), i + 1)

calculateMovingAverage(dataPoints, windowSize) ==
    LET sorted == SortByDay(dataPoints)
    IN  [j \in 1..Len(sorted) |->
            LET window == Window(sorted, j - 1, windowSize)
            IN  [day   |-> sorted[j].day,
                 \* avg = sum / window.length, Math.round(avg * 100) / 100
                 value |-> Round2(Sum(Field(window, Value)), Len(window))]]

----------------------------------------------------------------------------
(* TrendAnalyzer.detectAnomalies *)

\* With n values of sum S, value - mean = (n * value - S) / n = diff / n, and
\* stdDev = sqrt(squares / n^3) for squares the sum of the diff * diff, so that
\* deviation = (value - mean) / stdDev = diff * sqrt(n / squares).  The deviation
\* of a returned point is kept as [diff, count, squares]; its sign is that of diff.
Diff(values, v) == Len(values) * v - Sum(values)

SumOfSquares(values) ==
    Sum([i \in 1..Len(values) |-> Diff(values, values[i]) * Diff(values, values[i])])

Deviation(values, v) ==
    [diff |-> Diff(values, v), count |-> Len(values), squares |-> SumOfSquares(values)]

\* the doubles: mean = sum / n
Mean(values) == DDiv(DInt(Sum(values)), DInt(Len(values)))

\* Math.sqrt(values.reduce((sum, v) => sum + (v - mean) ** 2, 0) / values.length)
StdDev(values) == RootMeanSquare(values, Mean(values))

\* Math.abs((value - mean) / stdDev)
AbsDeviationFrom(values, v, mean) ==
    DAbs(DDiv(DSub(DInt(v), mean), RootMeanSquare(values, mean)))
AbsDeviation(values, v) == AbsDeviationFrom(values, v, Mean(values))

\* Math.abs(p.deviation) >= stdDevThreshold, the threshold being num / den,
\* den > 0; a deviation of exactly the threshold is compared as the double it is
AtLeastThreshold(values, v, stdDevThreshold) ==
    LET deviation == Deviation(values, v)
        squared   == deviation.diff * deviation.diff * deviation.count
                         * stdDevThreshold.den * stdDevThreshold.den
        limit     == stdDevThreshold.num * stdDevThreshold.num * deviation.squares
    IN  \/ stdDevThreshold.num <= 0
        \/ squared > limit
        \/ /\ squared = limit
           /\ DCmp(AbsDeviation(values, v),
                   DLiteral(stdDevThreshold.num, stdDevThreshold.den)) >= 0

\* .filter(p => Math.abs(p.deviation) >= stdDevThreshold)
Flagged(points, values, stdDevThreshold) ==
    LET Kept(p) == AtLeastThreshold(values, p.value, stdDevThreshold)
    IN  SelectSeq(points, Kept)

detectAnomalies(dataPoints, stdDevThreshold) ==
    IF Len(dataPoints) < 5 THEN <<>>
    ELSE LET values == Field(dataPoints, Value)
         IN  IF SumOfSquares(values) = 0 THEN <<>>
             ELSE Flagged([i \in 1..Len(dataPoints) |->
                              [day       |-> dataPoints[i].day,
                               value     |-> dataPoints[i].value,
                               deviation |-> Deviation(values, dataPoints[i].value)]],
                          values, stdDevThreshold)

----------------------------------------------------------------------------
(* OuraDriver.parseSleepPhases *)

\* A date string ('2025-01-02T23:50:00+02:00') is a record of the day, the
\* time of the day in milliseconds and the offset from UTC in minutes that it
\* spells; an instant is a count of milliseconds since the epoch.

\* new Date(text).getTime()
getTime(text) == text.date * 86400000 + text.time - text.offset * 60000

\* new Date(instant).toISOString(): the day and the time of the day in UTC
toISOString(instant) ==
    [date |-> instant \div 86400000, time |-> instant % 86400000, offset |-> 0]

stageMap == ("1" :> "deep") @@ ("2" :> "light") @@ ("3" :> "rem") @@ ("4" :> "awake")

intervalMs == 5 * 60 * 1000

\* every stage given the length of one interval
StageOf_oneInterval(currentStage, startTime, stageStart, i) ==
    [stage     |-> stageMap[currentStage],
     startTime |-> toISOString(startTime + stageStart * intervalMs),
     endTime   |-> toISOString(startTime + i * intervalMs),
     duration  |-> 5 * 60]

\* the stage pushed when the run of currentStage, begun at stageStart, ends at i
StageOf(currentStage, startTime, stageStart, i) ==
    [stage     |-> stageMap[currentStage],
     startTime |-> toISOString(startTime + stageStart * intervalMs),
     endTime   |-> toISOString(startTime + i * intervalMs),
     duration  |-> (i - stageStart) * 5 * 60]

\* for (let i = 0; i <= phases.length; i++), from i on; currentStage is "null"
\* before the first character, and phase is "null" past the last
RECURSIVE PhaseLoop(_, _, _, _, _, _)
PhaseLoop(phases, startTime, i, currentStage, stageStart, stages) ==
    IF i > Len(phases) THEN stages
    ELSE LET phase == IF i < Len(phases) THEN phases[i + 1] ELSE "null"
         IN  IF phase # currentStage
             THEN PhaseLoop(phases, startTime, i + 1, phase, i,
                            IF currentStage # "null" /\ currentStage \in DOMAIN stageMap
                            THEN Append(stages, StageOf(currentStage, startTime, stageStart, i))
                            ELSE stages)
             ELSE PhaseLoop(phases, startTime, i + 1, currentStage, stageStart, stages)

\* phases: string | null is a record [present, items], items the characters
parseSleepPhases(phases, bedtimeStart) ==
    IF ~phases.present \/ Len(phases.items) = 0 THEN <<>>
    ELSE PhaseLoop(phases.items, getTime(bedtimeStart), 0, "null", 0, <<>>)

----------------------------------------------------------------------------
(* Inputs *)

Orders == {"asc", "desc"}

\* the day (or instant) of the i-th listed record of n: listed oldest first
\* ("asc") or newest first ("desc")
Listed(n, order, i) == IF order = "asc" THEN i ELSE n + 1 - i

\* a SleepSession, with the fields the analyzers read
Session(day, kind) ==
    [day |-> day, totalSleepDuration |-> kind.total, deepSleepDuration |-> kind.deep,
     efficiency |-> kind.efficiency, lowestHeartRate |-> kind.lowestHR]

Night(total) == [total |-> total, deep |-> total \div 5, efficiency |-> 90, lowestHR |-> <<>>]

\* nights of 6 h, 7 h, 7 h 00 min 30 s, 7 h 10 min, 10 h
DebtDurations == {21600, 25200, 25230, 25800, 36000}
DebtTargets == {420, 480}

\* a short poor night, a fair night without a heart-rate reading, a long good
\* night, and a session that recorded no sleep at all
SleepKinds ==
    {[total |-> 5 * 3600, deep |-> 900,  efficiency |-> 70, lowestHR |-> <<62>>],
     [total |-> 7 * 3600, deep |-> 3780, efficiency |-> 85, lowestHR |-> <<>>],
     [total |-> 8 * 3600, deep |-> 6336, efficiency |-> 92, lowestHR |-> <<50>>],
     [total |-> 0,        deep |-> 0,    efficiency |-> 0,  lowestHR |-> <<55>>]}
HrvValues == {20, 45, 65}
ReadinessScores == {0 - 20, 70, 150}
BpmValues == {48, 58, 72}
\* readings on either side of the two highest tiers of scoreRestingHR, and above
BoundaryBpm == {65, 66, 70, 71, 80}
ActivityScores == {40, 80}
PointValues == {0 - 10, 0, 10, 20, 20020, 21020}

\* arrays of n records whose i-th listed record takes the i-th of the values v
DebtArray(n, order, v) == [i \in 1..n |-> Session(Listed(n, order, i), Night(v[i]))]
SleepArray(n, order, v) == [i \in 1..n |-> Session(Listed(n, order, i), v[i])]
HrvArray(n, order, v) == [i \in 1..n |-> [timestamp |-> Listed(n, order, i), hrv |-> v[i]]]
ReadinessArray(n, order, v) == [i \in 1..n |-> [day |-> Listed(n, order, i), score |-> v[i]]]
HeartRateArray(n, order, v) == [i \in 1..n |-> [timestamp |-> Listed(n, order, i), bpm |-> v[i]]]
ActivityArray(n, order, v) == [i \in 1..n |-> [day |-> Listed(n, order, i), score |-> v[i]]]
PointArray(n, order, v) == [i \in 1..n |-> [day |-> Listed(n, order, i), value |-> v[i]]]

\* records that all carry the same day: the sessions of one day (a nap and a
\* night), or the records two platforms report for one day
SameDay(array) == [i \in 1..Len(array) |-> [array[i] EXCEPT !.day = 1]]

\* n heart-rate readings: x first, y last, z in between
Readings(n, x, y, z) == [i \in 1..n |-> IF i = 1 THEN x ELSE IF i = n THEN y ELSE z]

\* one ordinary array of three records for each input
Same(value) == [i \in 1..3 |-> value]
OrdinarySleep == SleepArray(3, "asc", Same([total |-> 8 * 3600, deep |-> 6336,
                                            efficiency |-> 92, lowestHR |-> <<50>>]))
OrdinaryHrv == HrvArray(3, "asc", Same(65))
OrdinaryReadiness == ReadinessArray(3, "asc", Same(70))
OrdinaryHeartRate == HeartRateArray(3, "asc", Same(48))
OrdinaryActivity == ActivityArray(3, "asc", Same(80))

\* arrays of three different records each, listed newest first (heart rates
\* highest first), for the calls made one after the other
UnsortedSleep ==
    SleepArray(3, "desc",
               [i \in 1..3 |-> [total |-> (5 + i) * 3600, deep |-> 6336,
                                efficiency |-> 92, lowestHR |-> <<50 + i>>]])
UnsortedHrv == HrvArray(3, "desc", <<65, 55, 45>>)
UnsortedReadiness == ReadinessArray(3, "desc", <<70, 60, 50>>)
UnsortedHeartRate == HeartRateArray(3, "desc", <<72, 60, 48>>)
UnsortedActivity == ActivityArray(3, "desc", <<80, 70, 60>>)
\* the thresholds of detectAnomalies in those calls: 1 and 2 standard deviations
SessionThresholds == {[num |-> 1, den |-> 1], [num |-> 2, den |-> 1]}

\* an optional array: left out, or the ordinary array
Plain(array) == {Absent, Given(array)}
\* the array, given or left out
Either(given, array) == IF given THEN Given(array) ELSE Absent
\* left out, empty, or the ordinary array
Basic(array) == {Absent, Given(<<>>), Given(array)}

\* parseSleepPhases: the four phase characters and one that is none of them;
\* bedtimes of 23:50 UTC, 23:30 at UTC+2 and 00:30 at UTC+2, on day 2
PhaseChars == {"1", "2", "3", "4", "0"}
Bedtimes ==
    {[date |-> 2, time |-> 85800000, offset |-> 0],
     [date |-> 2, time |-> 84600000, offset |-> 120],
     [date |-> 2, time |-> 1800000, offset |-> 120]}

\* calculateMovingAverage: values whose means need rounding to 2 decimals
MovingValues == {10, 20, 21}

\* detectAnomalies: values, and thresholds of 1, 1.5 and 2 standard deviations
AnomalyValues == {20, 45, 70}
Thresholds == {[num |-> 1, den |-> 1], [num |-> 3, den |-> 2], [num |-> 2, den |-> 1]}
\* the ten daily values of the documented example, 2025-01-01 to 2025-01-10
DocumentedValues == <<45, 48, 42, 47, 22, 44, 46, 75, 43, 49>>

\* analyzeMultipleMetrics: a metric of up to 2 points
MetricNames == {"steps", "hrv"}
MetricValues == {10, 20}
Metric(name, n, order, v) == [name |-> name, dataPoints |-> PointArray(n, order, v)]

\* scoreSleepQuality: a SleepSession with the fields the method reads, among
\* them negative durations, more than 24 hours, and efficiency outside 0-100
QualityTotals == {0 - 3600, 0, 17280, 21600, 24480, 27360, 31680, 34560, 90000}
QualityEfficiencies == {0 - 5, 70, 80, 85, 90, 120}
QualityDeeps == {0 - 100, 0, 1440, 4320, 5760}
QualityRems == {0, 2880, 4320, 5760, 7200}
QualityLatencies == {0 - 60, 900, 1800, 2700, 3600, 3601}

\* scoreSleepConsistency: the night that ends on the given day, gone to bed at
\* minute bed of the evening before (or of the day itself, after midnight) and
\* woken at minute wake, both on the UTC clock
BedMinutes == {1380, 1410, 30}
WakeMinutes == {420, 450}
\* The time zones of the host: UTC all year; a clock put forward one hour at
\* 01:00 UTC of day 2, between the nights (as Europe/London in March); and a
\* clock four hours behind UTC put back one hour at 06:00 UTC of day 2 (as
\* America/New_York in November)
FixedZone(offset) == [offset |-> offset, changes |-> <<>>]
ChangingZone(offset, at, after) ==
    [offset |-> offset, changes |-> <<[at |-> at, offset |-> after]>>]
\* Nights from 23:00 to 07:00 on a clock that is put forward one hour at
\* 01:00 UTC of day 2: an hour earlier on the UTC clock from then on
SummerTimeBeds == <<1380, 1380, 1320>>
SummerTimeWakes == <<420, 360, 360>>
TimeZones ==
    {FixedZone(0),
     ChangingZone(0, 2 * 1440 + 60, 60),
     ChangingZone(0 - 240, 2 * 1440 + 360, 0 - 300)}
NightOf(day, bed, wake) ==
    [day |-> day,
     bedtimeStart |-> IF bed >= 720 THEN (day - 1) * 1440 + bed ELSE day * 1440 + bed,
     bedtimeEnd   |-> day * 1440 + wake]
NightArray(n, order, bed, wake) ==
    [i \in 1..n |-> NightOf(Listed(n, order, i), bed[i], wake[i])]

\* Inputs whose averages stand exactly on a threshold, where the doubles the
\* code computes decide the tier:
\* analyzeSleepDebt, halves of 3 nights that average exactly 600 s apart
TiedDurations ==
    {<<15786, 15786, 15785, 16386, 16386, 16385>>,
     <<33366, 33365, 33365, 32766, 32765, 32765>>}
\* scoreHRV, the last 3 of 12 samples averaging exactly 1.05, 0.75 and 0.75
\* times the other 9
TiedHrvStatus ==
    {<<52, 51, 51, 51, 51, 51, 51, 51, 51, 54, 54, 53>>,
     <<92, 91, 91, 91, 91, 91, 91, 91, 91, 69, 68, 68>>,
     <<79, 79, 78, 78, 78, 78, 78, 78, 78, 59, 59, 58>>}
\* scoreHRVTrend, the last 3 samples averaging exactly 1.10, 0.90 and 0.80
\* times all of them
TiedHrvTrend ==
    {<<32, 32, 33, 32, 32, 33, 32, 32, 32, 36, 31, 43>>,
     <<45, 46, 46, 45, 46, 45, 44, 21, 52>>,
     <<106, 107, 106, 106, 106, 107, 84, 85, 63>>,
     <<74, 74, 75, 75, 75, 75, 57, 65, 70>>}
\* scoreRestingHRTrend, all the nights averaging exactly 3, 1, -1 and -3 bpm
\* more than the last 3
TiedLowestHeartRates ==
    {<<69, 69, 70, 59, 63, 68>>, <<65, 65, 66, 71, 55, 64>>,
     <<63, 62, 63, 60, 65, 69>>, <<58, 59, 59, 61, 62, 71>>}
\* scoreStrainBalance, the last 3 days averaging exactly 0.85 times the 3 before
TiedActivity == {<<34, 33, 33, 29, 28, 28>>, <<67, 67, 66, 57, 57, 56>>}
\* analyzeTrend, a change of exactly 5 percent, and changes of 14.375 and
\* -6.875 percent, halfway between two hundredths
TiedPoints ==
    {<<14699, 14651, 14640, 15397, 15397, 15396, 15396>>, <<160, 183>>, <<160, 149>>}
\* calculateMovingAverage, 40 values of mean 1.025, halfway between two hundredths
TiedMovingValues == [i \in 1..40 |-> IF i = 1 THEN 2 ELSE 1]
\* detectAnomalies, a last value exactly 2 standard deviations above the mean
TiedAnomalyValues == <<70, 70, 70, 70, 71>>

\* a fair night with the given lowest heart rate
NightWithLowest(bpm) ==
    [total |-> 7 * 3600, deep |-> 3780, efficiency |-> 85, lowestHR |-> <<bpm>>]

----------------------------------------------------------------------------
(* The calls: a call starts with its arguments bound and returns once *)

Called(m, a) ==
    /\ method = m
    /\ args = a
    /\ created = a
    /\ pc = "called"
    /\ result = <<>>
    /\ history = <<>>
    /\ NoDriver

\* an optional array parameter once const sorted = [...array].sort(...) has
\* run, or as it was when the guard before the statement returned
AfterSort(Key(_), array, reached) ==
    IF reached THEN [array EXCEPT !.items = AfterSortBy(Key, @)] ELSE array

\* What a call leaves in the arrays it was given: each array after the
\* statements of the method that are called on it.  The only ones are the
\* sorts; map, filter, slice and reduce build new arrays and values, the
\* pushes are on arrays the method has made, and no method assigns to an
\* element or a field of its inputs.
ArgsAfter(m, a) ==
    CASE m = "analyzeTrend" ->
            IF Len(a.dataPoints) = 0 THEN a
            ELSE [a EXCEPT !.dataPoints = AfterSortBy(Day, @)]
      [] m = "analyzeMultipleMetrics" ->
            [a EXCEPT !.metrics =
                [i \in 1..Len(a.metrics) |->
                    IF Len(a.metrics[i].dataPoints) = 0 THEN a.metrics[i]
                    ELSE [a.metrics[i] EXCEPT !.dataPoints = AfterSortBy(Day, @)]]]
      [] m = "calculateMovingAverage" ->
            [a EXCEPT !.dataPoints = AfterSortBy(Day, @)]
      [] m = "calculateTrainingReadiness" ->
            \* scoreHRV, scoreSleep, scoreRecovery, scoreRestingHR,
            \* scoreActivityBalance and scoreSleepDebt
            [a EXCEPT !.hrv = AfterSort(Timestamp, @, ~Missing(@)),
                      !.sleep = AfterSort(Day, AfterSort(Day, @, ~Missing(@)),
                                          ~FewerThan(@, 3)),
                      !.readiness = AfterSort(Day, @, ~Missing(@)),
                      !.heartRate = AfterSort(Bpm, @, ~Missing(@)),
                      !.activity = AfterSort(Day, @, ~FewerThan(@, 3))]
      [] m = "calculateRecovery" ->
            \* scoreSleep, scoreHRVTrend, scoreRestingHRTrend and scoreStrainBalance
            [a EXCEPT !.sleep = AfterSort(Day, AfterSort(Day, @, ~Missing(@)),
                                          ~FewerThan(@, 3)),
                      !.hrv = AfterSort(Timestamp, @, ~FewerThan(@, 3)),
                      !.activity = AfterSort(Day, @, ~FewerThan(@, 3))]
      [] OTHER -> a

\* A call computes its value from the arrays as they are when it is made,
\* and leaves behind the value it returns and the arrays as its statements
\* have left them; the analyzer classes declare no fields to keep more in.
Return(m, value) ==
    /\ method = m
    /\ pc = "called"
    /\ pc' = "returned"
    /\ result' = value
    /\ args' = ArgsAfter(m, args)
    /\ history' = Append(history, [method |-> m, args |-> args, created |-> created,
                                   result |-> value])
    /\ UNCHANGED <<method, created>>
    /\ UNCHANGED driverVars

Returned(m) == method = m /\ pc = "returned"

\* analyzeSleepDebt(sessions, targetMinutes): every array of up to MaxSessions
\* nights, and the arrays on the threshold of the trend
InitSleepDebt ==
    \/ \E n \in 0..MaxSessions :
        \E v \in [1..n -> DebtDurations], order \in Orders, targetMinutes \in DebtTargets :
            Called("analyzeSleepDebt",
                   [sessions |-> DebtArray(n, order, v), targetMinutes |-> targetMinutes])
    \/ \E v \in TiedDurations, order \in Orders :
            Called("analyzeSleepDebt",
                   [sessions |-> DebtArray(Len(v), order, v), targetMinutes |-> 480])

AnalyzeSleepDebt ==
    Return("analyzeSleepDebt", analyzeSleepDebt(args.sessions, args.targetMinutes))

ReadinessCall(h, s, r, b, a) ==
    Called("calculateTrainingReadiness",
           [hrv |-> h, sleep |-> s, readiness |-> r, heartRate |-> b, activity |-> a])

\* calculateTrainingReadiness(params): every combination of left-out, empty and
\* ordinary inputs, and every array of one input beside left-out or ordinary
\* other inputs (beside the hrv arrays, the longest, the others are all left out
\* or all ordinary), and the hrv arrays on the thresholds of the ratio
InitReadiness ==
    \/ \E v \in TiedHrvStatus, order \in Orders, others \in BOOLEAN :
            ReadinessCall(Given(HrvArray(Len(v), order, v)),
                          Either(others, OrdinarySleep), Either(others, OrdinaryReadiness),
                          Either(others, OrdinaryHeartRate), Either(others, OrdinaryActivity))
    \/ \E v \in [1..2 -> SleepKinds] :
            ReadinessCall(Absent, Given(SameDay(SleepArray(2, "asc", v))),
                          Absent, Absent, Absent)
    \/ \E v \in [1..2 -> ReadinessScores] :
            ReadinessCall(Absent, Absent, Given(SameDay(ReadinessArray(2, "asc", v))),
                          Absent, Absent)
    \/ \E h \in Basic(OrdinaryHrv), s \in Basic(OrdinarySleep),
          r \in Basic(OrdinaryReadiness), b \in Basic(OrdinaryHeartRate),
          a \in Basic(OrdinaryActivity) :
            ReadinessCall(h, s, r, b, a)
    \/ \E n \in 1..MaxHrv, order \in Orders :
        \E v \in [1..n -> HrvValues], others \in BOOLEAN :
            ReadinessCall(Given(HrvArray(n, order, v)),
                          Either(others, OrdinarySleep), Either(others, OrdinaryReadiness),
                          Either(others, OrdinaryHeartRate), Either(others, OrdinaryActivity))
    \/ \E n \in 1..MaxLen, order \in Orders :
        \E v \in [1..n -> SleepKinds], h \in Plain(OrdinaryHrv),
           r \in Plain(OrdinaryReadiness), b \in Plain(OrdinaryHeartRate),
           a \in Plain(OrdinaryActivity) :
            ReadinessCall(h, Given(SleepArray(n, order, v)), r, b, a)
    \/ \E n \in 1..MaxLen, order \in Orders :
        \E v \in [1..n -> ReadinessScores], h \in Plain(OrdinaryHrv),
           s \in Plain(OrdinarySleep), b \in Plain(OrdinaryHeartRate),
           a \in Plain(OrdinaryActivity) :
            ReadinessCall(h, s, Given(ReadinessArray(n, order, v)), b, a)
    \/ \E n \in 1..MaxLen, order \in Orders :
        \E v \in [1..n -> BpmValues], h \in Plain(OrdinaryHrv),
           s \in Plain(OrdinarySleep), r \in Plain(OrdinaryReadiness),
           a \in Plain(OrdinaryActivity) :
            ReadinessCall(h, s, r, Given(HeartRateArray(n, order, v)), a)
    \/ \E order \in Orders, x \in BpmValues, y \in BpmValues, z \in BpmValues :
            ReadinessCall(Absent, Absent, Absent,
                          Given(HeartRateArray(DaySamples, order, Readings(DaySamples, x, y, z))),
                          Absent)
    \/ \E n \in 1..MaxActivity, order \in Orders :
        \E v \in [1..n -> ActivityScores], h \in Plain(OrdinaryHrv),
           s \in Plain(OrdinarySleep), r \in Plain(OrdinaryReadiness),
           b \in Plain(OrdinaryHeartRate) :
            ReadinessCall(h, s, r, b, Given(ActivityArray(n, order, v)))
    \/ \E n \in 1..MaxLen, b \in BoundaryBpm :
            ReadinessCall(Absent, Absent, Absent,
                          Given(HeartRateArray(n, "asc", Readings(n, b, b, b))), Absent)
    \/ \E h \in HrvValues, k \in SleepKinds, r \in ReadinessScores :
            ReadinessCall(Given(HrvArray(3, "asc", Same(h))),
                          Given(SleepArray(3, "asc", Same(k))),
                          Given(ReadinessArray(3, "asc", Same(r))), Absent, Absent)

CalculateTrainingReadiness ==
    Return("calculateTrainingReadiness", calculateTrainingReadiness(args))

RecoveryCall(r, s, h, a) ==
    Called("calculateRecovery", [readiness |-> r, sleep |-> s, hrv |-> h, activity |-> a])

\* calculateRecovery(params), in the same way
InitRecovery ==
    \/ \E v \in TiedHrvTrend, order \in Orders :
            RecoveryCall(Absent, Absent, Given(HrvArray(Len(v), order, v)), Absent)
    \/ \E v \in TiedLowestHeartRates, order \in Orders :
            RecoveryCall(Absent,
                         Given(SleepArray(Len(v), order,
                                          [i \in 1..Len(v) |-> NightWithLowest(v[i])])),
                         Absent, Absent)
    \/ \E v \in TiedActivity, order \in Orders :
            RecoveryCall(Absent, Absent, Absent, Given(ActivityArray(Len(v), order, v)))
    \/ \E v \in [1..2 -> SleepKinds] :
            RecoveryCall(Absent, Given(SameDay(SleepArray(2, "asc", v))), Absent, Absent)
    \/ \E r \in Basic(OrdinaryReadiness), s \in Basic(OrdinarySleep),
          h \in Basic(OrdinaryHrv), a \in Basic(OrdinaryActivity) :
            RecoveryCall(r, s, h, a)
    \/ \E n \in 1..MaxLen, order \in Orders :
        \E v \in [1..n -> SleepKinds], r \in Plain(OrdinaryReadiness),
           h \in Plain(OrdinaryHrv), a \in Plain(OrdinaryActivity) :
            RecoveryCall(r, Given(SleepArray(n, order, v)), h, a)
    \/ \E n \in 1..MaxHrv, order \in Orders :
        \E v \in [1..n -> HrvValues], others \in BOOLEAN :
            RecoveryCall(Either(others, OrdinaryReadiness), Either(others, OrdinarySleep),
                         Given(HrvArray(n, order, v)), Either(others, OrdinaryActivity))
    \/ \E n \in 1..MaxActivity, order \in Orders :
        \E v \in [1..n -> ActivityScores], r \in Plain(OrdinaryReadiness),
           s \in Plain(OrdinarySleep), h \in Plain(OrdinaryHrv) :
            RecoveryCall(r, s, h, Given(ActivityArray(n, order, v)))

CalculateRecovery ==
    Return("calculateRecovery", calculateRecovery(args))

\* analyzeTrend(metric, dataPoints, periodDays): every array of up to MaxPoints
\* points, and the arrays on the thresholds
InitTrend ==
    \/ \E n \in 0..MaxPoints :
        \E v \in [1..n -> PointValues], order \in Orders :
            Called("analyzeTrend",
                   [metric |-> "steps", dataPoints |-> PointArray(n, order, v),
                    periodDays |-> 14])
    \/ \E v \in TiedPoints, order \in Orders :
            Called("analyzeTrend",
                   [metric |-> "steps", dataPoints |-> PointArray(Len(v), order, v),
                    periodDays |-> 14])

AnalyzeTrend ==
    Return("analyzeTrend", analyzeTrend(args.metric, args.dataPoints, args.periodDays))

\* analyzeMultipleMetrics(metrics, periodDays): up to MaxMetrics metrics
InitMultipleMetrics ==
    \E k \in 0..MaxMetrics :
        \E name \in [1..k -> MetricNames], n \in [1..k -> 0..2], order \in [1..k -> Orders],
           v \in [1..k -> [1..2 -> MetricValues]] :
            Called("analyzeMultipleMetrics",
                   [metrics |-> [i \in 1..k |->
                                    Metric(name[i], n[i], order[i], v[i])],
                    periodDays |-> 14])

AnalyzeMultipleMetrics ==
    Return("analyzeMultipleMetrics", analyzeMultipleMetrics(args.metrics, args.periodDays))

\* calculateMovingAverage(dataPoints, windowSize): every array of up to MaxPoints
\* points and every window of 1 to MaxWindow points, and the array whose mean
\* is halfway between two hundredths under a window that takes all of it
InitMovingAverage ==
    \/ \E n \in 0..MaxPoints, windowSize \in 1..MaxWindow :
        \E v \in [1..n -> MovingValues], order \in Orders :
            Called("calculateMovingAverage",
                   [dataPoints |-> PointArray(n, order, v), windowSize |-> windowSize])
    \/ \E order \in Orders :
            Called("calculateMovingAverage",
                   [dataPoints |-> PointArray(Len(TiedMovingValues), order, TiedMovingValues),
                    windowSize |-> Len(TiedMovingValues)])

CalculateMovingAverage ==
    Return("calculateMovingAverage",
           calculateMovingAverage(args.dataPoints, args.windowSize))

\* detectAnomalies(dataPoints, stdDevThreshold): every array of up to
\* MaxAnomalyPoints points, the documented example, and the array with a value
\* on the threshold
InitAnomalies ==
    \/ \E stdDevThreshold \in Thresholds, order \in Orders :
            Called("detectAnomalies",
                   [dataPoints |-> PointArray(Len(TiedAnomalyValues), order, TiedAnomalyValues),
                    stdDevThreshold |-> stdDevThreshold])
    \/ \E n \in 0..MaxAnomalyPoints, stdDevThreshold \in Thresholds :
        \E v \in [1..n -> AnomalyValues], order \in Orders :
            Called("detectAnomalies",
                   [dataPoints |-> PointArray(n, order, v),
                    stdDevThreshold |-> stdDevThreshold])
    \/ \E stdDevThreshold \in Thresholds, order \in Orders :
            Called("detectAnomalies",
                   [dataPoints |-> PointArray(Len(DocumentedValues), order, DocumentedValues),
                    stdDevThreshold |-> stdDevThreshold])

DetectAnomalies ==
    Return("detectAnomalies", detectAnomalies(args.dataPoints, args.stdDevThreshold))

\* scoreSleepQuality(session)
InitSleepQuality ==
    \E total \in QualityTotals, efficiency \in QualityEfficiencies, deep \in QualityDeeps,
       rem \in QualityRems, latency \in QualityLatencies :
        Called("scoreSleepQuality",
               [session |-> [day |-> 1, totalSleepDuration |-> total,
                             deepSleepDuration |-> deep, remSleepDuration |-> rem,
                             latency |-> latency, efficiency |-> efficiency]])

ScoreSleepQuality ==
    Return("scoreSleepQuality", scoreSleepQuality(args.session))

\* scoreSleepConsistency(sessions), on a host in one of the time zones
InitSleepConsistency ==
    \/ \E n \in 0..MaxSessions, timeZone \in TimeZones :
          \E bed \in [1..n -> BedMinutes], wake \in [1..n -> WakeMinutes] :
            Called("scoreSleepConsistency",
                   [sessions |-> NightArray(n, "asc", bed, wake), timeZone |-> timeZone])
    \/ \E timeZone \in TimeZones :
          Called("scoreSleepConsistency",
                 [sessions |-> NightArray(Len(SummerTimeBeds), "asc",
                                          SummerTimeBeds, SummerTimeWakes),
                  timeZone |-> timeZone])

ScoreSleepConsistency ==
    Return("scoreSleepConsistency", scoreSleepConsistency(args.sessions, args.timeZone))

\* parseSleepPhases(phases, bedtimeStart)
InitSleepPhases ==
    \E bedtimeStart \in Bedtimes :
        \/ Called("parseSleepPhases", [phases |-> Absent, bedtimeStart |-> bedtimeStart])
        \/ \E n \in 0..MaxPhases : \E chars \in [1..n -> PhaseChars] :
              Called("parseSleepPhases",
                     [phases |-> Given(chars), bedtimeStart |-> bedtimeStart])

ParseSleepPhases ==
    Return("parseSleepPhases", parseSleepPhases(args.phases, args.bedtimeStart))

SpecSleepDebt == InitSleepDebt /\ [][AnalyzeSleepDebt]_vars
SpecReadiness == InitReadiness /\ [][CalculateTrainingReadiness]_vars
SpecRecovery == InitRecovery /\ [][CalculateRecovery]_vars
SpecTrend == InitTrend /\ [][AnalyzeTrend]_vars
SpecMovingAverage == InitMovingAverage /\ [][CalculateMovingAverage]_vars
SpecAnomalies == InitAnomalies /\ [][DetectAnomalies]_vars
SpecSleepQuality == InitSleepQuality /\ [][ScoreSleepQuality]_vars
SpecSleepConsistency == InitSleepConsistency /\ [][ScoreSleepConsistency]_vars
SpecSleepPhases == InitSleepPhases /\ [][ParseSleepPhases]_vars

\* any one call on any analyzer
Init ==
    \/ InitSleepDebt \/ InitReadiness \/ InitRecovery \/ InitTrend
    \/ InitMultipleMetrics \/ InitMovingAverage \/ InitAnomalies
    \/ InitSleepQuality \/ InitSleepConsistency
Next ==
    \/ AnalyzeSleepDebt \/ CalculateTrainingReadiness \/ CalculateRecovery \/ AnalyzeTrend
    \/ AnalyzeMultipleMetrics \/ CalculateMovingAverage \/ DetectAnomalies
    \/ ScoreSleepQuality \/ ScoreSleepConsistency
Spec == Init /\ [][Next]_vars

\* Calls made one after the other, on the same analyzer objects or on new ones
\* (createSleepAnalyzer() and the like return a new object of a class without
\* fields), with new arrays or with the arrays of the call before: a few
\* inputs of each method
SessionInputs(Do(_, _)) ==
    \/ Do("analyzeSleepDebt",
          [sessions |-> DebtArray(4, "desc", <<21600, 21600, 21600, 25800>>),
           targetMinutes |-> 480])
    \/ Do("calculateTrainingReadiness",
          [hrv |-> Given(UnsortedHrv), sleep |-> Given(UnsortedSleep),
           readiness |-> Given(UnsortedReadiness),
           heartRate |-> Given(UnsortedHeartRate),
           activity |-> Given(UnsortedActivity)])
    \/ Do("calculateRecovery",
          [readiness |-> Given(UnsortedReadiness), sleep |-> Given(UnsortedSleep),
           hrv |-> Given(UnsortedHrv), activity |-> Given(UnsortedActivity)])
    \/ Do("analyzeTrend",
          [metric |-> "steps", dataPoints |-> PointArray(2, "desc", <<10, 20>>),
           periodDays |-> 14])
    \/ Do("analyzeMultipleMetrics",
          [metrics |-> <<Metric("steps", 2, "desc", <<10, 20>>)>>, periodDays |-> 14])
    \/ Do("calculateMovingAverage",
          [dataPoints |-> PointArray(3, "desc", <<10, 20, 21>>), windowSize |-> 2])
    \/ \E stdDevThreshold \in SessionThresholds, order \in Orders :
          Do("detectAnomalies",
             [dataPoints |-> PointArray(Len(DocumentedValues), order, DocumentedValues),
              stdDevThreshold |-> stdDevThreshold])
    \/ Do("scoreSleepQuality",
          [session |-> [day |-> 1, totalSleepDuration |-> 27360,
                        deepSleepDuration |-> 4320, remSleepDuration |-> 5760,
                        latency |-> 900, efficiency |-> 90]])
    \/ Do("scoreSleepConsistency",
          [sessions |-> NightArray(3, "desc", <<1380, 1410, 1380>>, <<420, 420, 450>>),
           timeZone |-> ChangingZone(0, 2 * 1440 + 60, 60)])

InitSession == SessionInputs(Called)

\* the next call, made on new arrays once the one before has returned
Again(m, a) ==
    /\ method' = m
    /\ args' = a
    /\ created' = a
    /\ pc' = "called"
    /\ result' = <<>>
    /\ UNCHANGED history
    /\ UNCHANGED driverVars

CallAgain ==
    /\ pc = "returned"
    /\ Len(history) < MaxCalls
    /\ SessionInputs(Again)

\* The caller calls the same method once more with the arguments of the call
\* before: the same objects, as that call has left them.
CallOnSame ==
    /\ pc = "returned"
    /\ Len(history) < MaxCalls
    /\ pc' = "called"
    /\ result' = <<>>
    /\ UNCHANGED <<method, args, created, history>>
    /\ UNCHANGED driverVars

\* The caller passes the dataPoints array of the call before, the same
\* object as that call has left it, to a method of the TrendAnalyzer; a holds
\* the other arguments.
OnSamePoints(m, a) ==
    /\ method' = m
    /\ args' = [a EXCEPT !.dataPoints = args.dataPoints]
    /\ created' = [a EXCEPT !.dataPoints = created.dataPoints]
    /\ pc' = "called"
    /\ result' = <<>>
    /\ UNCHANGED history
    /\ UNCHANGED driverVars

CallOnSamePoints ==
    /\ pc = "returned"
    /\ Len(history) < MaxCalls
    /\ method \in {"analyzeTrend", "calculateMovingAverage", "detectAnomalies"}
    /\ \/ OnSamePoints("analyzeTrend",
                       [metric |-> "steps", dataPoints |-> <<>>, periodDays |-> 14])
       \/ OnSamePoints("calculateMovingAverage",
                       [dataPoints |-> <<>>, windowSize |-> 2])
       \/ \E stdDevThreshold \in SessionThresholds :
             OnSamePoints("detectAnomalies",
                          [dataPoints |-> <<>>, stdDevThreshold |-> stdDevThreshold])

NextSession == Next \/ CallAgain \/ CallOnSame \/ CallOnSamePoints
SpecSession == InitSession /\ [][NextSession]_vars

----------------------------------------------------------------------------
(* RenphoDriver *)

Null == "null"
\* if (this.sessionKey): null and the empty string are both falsy
Truthy(text) == text # Null /\ text # ""

SignInEndpoint == "/v3/users/sign_in.json"
RenphoRequestGetters == {"getBodyComposition", "getWeightMeasurements", "getPersonalInfo"}
\* getWeightMeasurements awaits getBodyComposition
RenphoEndpoint(name) ==
    IF name = "getPersonalInfo" THEN "/v2/users/profile.json" ELSE "/v2/measurements/list.json"

\* new RenphoDriver({ email, password, accessToken? })
InitRenpho ==
    /\ NoCall
    /\ \E accessToken \in {Null, "token"} :
          driver = [type |-> "renpho", sessionKey |-> accessToken]
    /\ env = <<>>
    /\ tasks = <<>>
    /\ io = <<>>

\* A getter is called: request() calls authenticate(), which returns at once
\* if there is a session key and otherwise sends the sign-in request and
\* awaits its response.
RenphoStart(name) ==
    /\ driver.type = "renpho"
    /\ Len(tasks) < MaxRenphoCalls
    /\ IF Truthy(driver.sessionKey)
       THEN /\ tasks' = Append(tasks, [method |-> name, pc |-> "authenticated"])
            /\ UNCHANGED io
       ELSE /\ tasks' = Append(tasks, [method |-> name, pc |-> "signingIn"])
            /\ io' = Append(io, [endpoint |-> SignInEndpoint, key |-> ""])
    /\ UNCHANGED <<driver, env>>
    /\ UNCHANGED callVars

\* The sign-in response arrives: an HTTP error or a status_code other than
\* '20000' throws, else the session key of the response is stored.
SignInAnswered(t, outcome) ==
    /\ driver.type = "renpho"
    /\ tasks[t].pc = "signingIn"
    /\ IF outcome = "ok"
       THEN /\ driver' = [driver EXCEPT !.sessionKey = "key"]
            /\ tasks' = [tasks EXCEPT ![t].pc = "authenticated"]
       ELSE /\ tasks' = [tasks EXCEPT ![t].pc = "rejected"]
            /\ UNCHANGED driver
    /\ UNCHANGED <<env, io>>
    /\ UNCHANGED callVars

\* authenticate() has returned: the request is sent with this.sessionKey
RenphoRequest(t) ==
    /\ driver.type = "renpho"
    /\ tasks[t].pc = "authenticated"
    /\ io' = Append(io, [endpoint |-> RenphoEndpoint(tasks[t].method),
                         key |-> driver.sessionKey])
    /\ tasks' = [tasks EXCEPT ![t].pc = "fetching"]
    /\ UNCHANGED <<driver, env>>
    /\ UNCHANGED callVars

\* The response arrives: an HTTP error throws, else the getter resolves
RenphoAnswered(t, ok) ==
    /\ driver.type = "renpho"
    /\ tasks[t].pc = "fetching"
    /\ tasks' = [tasks EXCEPT ![t].pc = IF ok THEN "resolved" ELSE "rejected"]
    /\ UNCHANGED <<driver, env, io>>
    /\ UNCHANGED callVars

RenphoCall == \E name \in RenphoRequestGetters : RenphoStart(name)
RenphoSignIn ==
    \E t \in 1..Len(tasks), outcome \in {"ok", "http_error", "status_code"} :
        SignInAnswered(t, outcome)
RenphoSend == \E t \in 1..Len(tasks) : RenphoRequest(t)
RenphoReceive == \E t \in 1..Len(tasks), ok \in BOOLEAN : RenphoAnswered(t, ok)

NextRenpho == RenphoCall \/ RenphoSignIn \/ RenphoSend \/ RenphoReceive
SpecRenpho == InitRenpho /\ [][NextRenpho]_vars

----------------------------------------------------------------------------
(* AppleHealthDriver *)

\* The elements of an export file: <Record type=... value=.../> elements,
\* <Workout .../> elements and anything else.
Record(type, value) == [tag |-> "Record", type |-> type, value |-> value]
WorkoutElement == [tag |-> "Workout", type |-> "HKWorkoutActivityTypeRunning", value |-> 30]
OtherElement == [tag |-> "ExportDate", type |-> "", value |-> 0]

Exports ==
    { <<OtherElement, Record("HKQuantityTypeIdentifierHeartRate", 60), WorkoutElement>>,
      <<Record("HKCategoryTypeIdentifierSleepAnalysis", 1),
        Record("HKQuantityTypeIdentifierBodyMass", 70),
        Record("HKQuantityTypeIdentifierHeartRate", 55),
        Record("HKQuantityTypeIdentifierStepCount", 900)>> }

IsRecord(element) == element.tag = "Record"
IsWorkout(element) == element.tag = "Workout"
\* /<Record\s+([^>]+)\/>/g keeps the Record elements, in file order
parseHealthRecords(xml) == SelectSeq(xml, IsRecord)
\* /<Workout\s+([^>]+?)(?:\/>|>)/g keeps the Workout elements, in file order
parseWorkoutRecords(xml) == SelectSeq(xml, IsWorkout)

\* The record types a getter asks getRecordsByType for, in the order of its
\* calls; getDailySleep awaits getSleep.
AppleTypes ==
    [getSleep |-> <<"HKCategoryTypeIdentifierSleepAnalysis">>,
     getDailySleep |-> <<"HKCategoryTypeIdentifierSleepAnalysis">>,
     getDailyActivity |-> <<"HKQuantityTypeIdentifierStepCount",
                            "HKQuantityTypeIdentifierActiveEnergyBurned",
                            "HKQuantityTypeIdentifierDistanceWalkingRunning">>,
     getHeartRate |-> <<"HKQuantityTypeIdentifierHeartRate">>,
     getHRV |-> <<"HKQuantityTypeIdentifierHeartRateVariabilitySDNN">>,
     getSpO2 |-> <<"HKQuantityTypeIdentifierOxygenSaturation">>,
     getBodyTemperature |-> <<"HKQuantityTypeIdentifierAppleSleepingWristTemperature">>,
     getVO2Max |-> <<"HKQuantityTypeIdentifierVO2Max">>,
     getBodyComposition |-> <<"HKQuantityTypeIdentifierBodyMass",
                              "HKQuantityTypeIdentifierBodyFatPercentage",
                              "HKQuantityTypeIdentifierLeanBodyMass",
                              "HKQuantityTypeIdentifierBodyMassIndex">>,
     getWeightMeasurements |-> <<"HKQuantityTypeIdentifierBodyMass",
                                 "HKQuantityTypeIdentifierBodyMassIndex">>]
\* getWorkouts and getPersonalInfo call ensureLoaded themselves
AppleRecordGetters == DOMAIN AppleTypes \cup {"getWorkouts", "getPersonalInfo"}
\* The getters that await another getter of the driver:
\* const sessions = await this.getSleep(options)
AwaitingGetters == {"getDailySleep"}

\* this.records.filter(r => r.type === type), called without a date range
RECURSIVE OfType(_, _)
OfType(records, type) ==
    IF records = <<>> THEN <<>>
    ELSE IF Head(records).type = type
         THEN <<Head(records)>> \o OfType(Tail(records), type)
         ELSE OfType(Tail(records), type)

\* The running state of one getter call, s: the driver's fields, the file
\* reads so far, whether the call has thrown and the record lists obtained.
ensureLoaded_noFlag(s, file) ==
    IF s.driver.loaded THEN s
    ELSE IF ~file.exists THEN [s EXCEPT !.threw = TRUE]
    ELSE [s EXCEPT !.driver.records = parseHealthRecords(file.content),
                   !.driver.workoutRecords = parseWorkoutRecords(file.content),
                   !.io = Append(@, [read |-> "export.xml", content |-> file.content])]

ensureLoaded(s, file) ==
    IF s.driver.loaded THEN s
    ELSE IF ~file.exists THEN [s EXCEPT !.threw = TRUE]
    ELSE [s EXCEPT !.driver.records = parseHealthRecords(file.content),
                   !.driver.workoutRecords = parseWorkoutRecords(file.content),
                   !.driver.loaded = TRUE,
                   !.io = Append(@, [read |-> "export.xml", content |-> file.content])]

getRecordsByType(s, type, file) ==
    LET l == ensureLoaded(s, file)
    IN  IF l.threw THEN l
        ELSE [l EXCEPT !.value = Append(@, OfType(l.driver.records, type))]

\* the getRecordsByType calls of one getter, which a throw cuts short
RECURSIVE RecordsOfTypes(_, _, _)
RecordsOfTypes(s, types, file) ==
    IF s.threw \/ types = <<>> THEN s
    ELSE RecordsOfTypes(getRecordsByType(s, Head(types), file), Tail(types), file)

AppleGetter(name, s, file) ==
    IF name = "getWorkouts"
    THEN LET l == ensureLoaded(s, file)
         IN  IF l.threw THEN l
             ELSE [l EXCEPT !.value = <<l.driver.workoutRecords>>]
    ELSE IF name = "getPersonalInfo"
    THEN LET l == ensureLoaded(s, file)
         IN  IF l.threw THEN l
             ELSE [l EXCEPT !.value =
                      <<OfType(l.driver.records, "HKQuantityTypeIdentifierHeight"),
                        OfType(l.driver.records, "HKQuantityTypeIdentifierBodyMass")>>]
    ELSE RecordsOfTypes(s, AppleTypes[name], file)

\* new AppleHealthDriver(exportPath); the file is there or not
InitApple ==
    /\ NoCall
    /\ driver = [type |-> "apple_health", records |-> <<>>,
                 workoutRecords |-> <<>>, loaded |-> FALSE]
    /\ \/ env = [exists |-> FALSE, content |-> <<>>]
       \/ \E content \in Exports : env = [exists |-> TRUE, content |-> content]
    /\ tasks = <<>>
    /\ io = <<>>

\* what a getter that has run to its end has settled its promise with: a
\* throw rejects it
SettledWith(s) ==
    IF s.threw
    THEN [pc |-> "rejected", error |-> "Apple Health export not found"]
    ELSE [pc |-> "resolved", value |-> s.value]

\* A getter that needs records is called. It loads the export and takes its
\* records within the call. A getter that awaits nothing has settled when
\* the call returns. getDailySleep awaits getSleep, which has settled by
\* then: its own promise is pending when the call returns.
AppleGet(name) ==
    /\ driver.type = "apple_health"
    /\ Len(tasks) < MaxAppleCalls
    /\ LET s == AppleGetter(name, [driver |-> driver, io |-> io,
                                   threw |-> FALSE, value |-> <<>>], env)
       IN  /\ driver' = s.driver
           /\ io' = s.io
           /\ tasks' = Append(tasks,
                  IF name \in AwaitingGetters
                  THEN [method |-> name, pc |-> "pending", awaited |-> SettledWith(s)]
                  ELSE IF s.threw
                  THEN [method |-> name, pc |-> "rejected",
                        error |-> SettledWith(s).error]
                  ELSE [method |-> name, pc |-> "resolved",
                        value |-> SettledWith(s).value])
    /\ UNCHANGED env
    /\ UNCHANGED callVars

\* One microtask later the await of a pending call returns what the awaited
\* getter resolved with, or throws what it rejected with, and the call
\* settles in the same way; it reads neither the driver nor the file. The
\* awaits resume in the order in which they were made.
AppleResume(t) ==
    /\ driver.type = "apple_health"
    /\ t \in 1..Len(tasks)
    /\ tasks[t].pc = "pending"
    /\ \A earlier \in 1..(t - 1) : tasks[earlier].pc # "pending"
    /\ tasks' = [tasks EXCEPT ![t] =
                    IF tasks[t].awaited.pc = "rejected"
                    THEN [method |-> tasks[t].method, pc |-> "rejected",
                          error |-> tasks[t].awaited.error]
                    ELSE [method |-> tasks[t].method, pc |-> "resolved",
                          value |-> tasks[t].awaited.value]]
    /\ UNCHANGED <<driver, env, io>>
    /\ UNCHANGED callVars

\* The user exports again, or for the first time
ExportWritten(content) ==
    /\ driver.type = "apple_health"
    /\ env # [exists |-> TRUE, content |-> content]
    /\ env' = [exists |-> TRUE, content |-> content]
    /\ UNCHANGED <<driver, tasks, io>>
    /\ UNCHANGED callVars

ExportRemoved ==
    /\ driver.type = "apple_health"
    /\ env.exists
    /\ env' = [exists |-> FALSE, content |-> <<>>]
    /\ UNCHANGED <<driver, tasks, io>>
    /\ UNCHANGED callVars

AppleCall == \E name \in AppleRecordGetters : AppleGet(name)
AppleSettle == \E t \in 1..Len(tasks) : AppleResume(t)
ExportChange == (\E content \in Exports : ExportWritten(content)) \/ ExportRemoved

NextApple == AppleCall \/ AppleSettle \/ ExportChange
SpecApple == InitApple /\ [][NextApple]_vars

----------------------------------------------------------------------------
(* OuraDriver and WhoopDriver: request, fetchAllPages and getPersonalInfo *)

\* queryParams.next_token for Oura, queryParams.nextToken for WHOOP
TokenParam(type) == IF type = "oura" THEN "next_token" ELSE "nextToken"
\* response.data for Oura, response.records for WHOOP
DataField(type) == IF type = "oura" THEN "data" ELSE "records"

\* const queryParams = { ...params }; if (nextToken) queryParams.<token> = nextToken
\* The date parameters are left out; the parameters are <<key, value>> pairs.
QueryParams(type, nextToken) ==
    IF Truthy(nextToken) THEN {<<TokenParam(type), nextToken>>} ELSE {}

\* allData.push(...items)
push_replace(array, items) == items

push(array, items) == array \o items

\* The numbers of records on a page
PageSizes == {0, 2}
\* The pages a server holds for an endpoint: page k carries its records and
\* the token of page k + 1, the last page a null or empty token.
Page(type, k, size, token) ==
    (DataField(type) :> [j \in 1..size |-> 10 * k + j]) @@ [next_token |-> token]
Pages(type, sizes, last) ==
    [k \in 1..Len(sizes) |->
        Page(type, k, sizes[k], IF k < Len(sizes) THEN ToString(k) ELSE last)]

\* The page the server answers a request with: the first one when the
\* request has no token, else the one that follows the page with that token.
PageFor(pages, type, queryParams) ==
    LET sent == {p \in queryParams : p[1] = TokenParam(type)}
    IN  IF sent = {} THEN 1
        ELSE CHOOSE k \in 2..Len(pages) : \E p \in sent : pages[k - 1].next_token = p[2]

\* the last request a call has sent
LastRequest(log, t) ==
    log[CHOOSE k \in 1..Len(log) :
            log[k].by = t /\ \A later \in (k + 1)..Len(log) : log[later].by # t]

\* The endpoints of the lists a getter fetches, two of each driver, and the
\* endpoint of getPersonalInfo; the URL is this.baseUrl followed by it
ListEndpoints(type) ==
    IF type = "oura"
    THEN {"/v2/usercollection/sleep", "/v2/usercollection/daily_readiness"}
    ELSE {"/v1/activity/sleep", "/v1/recovery"}
PersonalInfoEndpoint(type) ==
    IF type = "oura" THEN "/v2/usercollection/personal_info"
    ELSE "/v1/user/measurement/body"

Undefined == "undefined"
\* raw.age ?? undefined
OrUndefined(value) == IF value = Null THEN Undefined ELSE value

\* The text of biological_sex is kept as the sequence of its characters, and
\* the field, a string or null, as a sequence of one text or of none.
NoText == <<>>
Text(characters) == <<characters>>

UpperCaseLetters ==
    <<"A", "B", "C", "D", "E", "F", "G", "H", "I", "J", "K", "L", "M",
      "N", "O", "P", "Q", "R", "S", "T", "U", "V", "W", "X", "Y", "Z">>
LowerCaseLetters ==
    <<"a", "b", "c", "d", "e", "f", "g", "h", "i", "j", "k", "l", "m",
      "n", "o", "p", "q", "r", "s", "t", "u", "v", "w", "x", "y", "z">>
\* the lower-case form of one character: of a letter A to Z the letter a to z,
\* of any other ASCII character the character itself
LowerCaseOf(character) ==
    IF \E k \in 1..26 : UpperCaseLetters[k] = character
    THEN LowerCaseLetters[CHOOSE k \in 1..26 : UpperCaseLetters[k] = character]
    ELSE character
\* sex.toLowerCase(): every character of the text in its lower-case form
toLowerCase(text) == [i \in 1..Len(text) |-> LowerCaseOf(text[i])]

mapBiologicalSex(sex) ==
    \* if (!sex) return undefined: null or the empty string
    IF sex = NoText \/ sex[1] = <<>> THEN Undefined
    ELSE IF toLowerCase(sex[1]) = <<"m", "a", "l", "e">> THEN "male"
    ELSE IF toLowerCase(sex[1]) = <<"f", "e", "m", "a", "l", "e">> THEN "female"
    ELSE "other"

\* the values of biological_sex a server sends: null, the empty text, the two
\* names in several spellings, and other texts
BiologicalSexes ==
    {NoText, Text(<<>>),
     Text(<<"m", "a", "l", "e">>), Text(<<"M", "a", "l", "e">>),
     Text(<<"M", "A", "L", "E">>),
     Text(<<"f", "e", "m", "a", "l", "e">>), Text(<<"F", "e", "m", "a", "l", "e">>),
     Text(<<"F", "E", "M", "A", "L", "E">>), Text(<<"f", "E", "M", "A", "L", "E">>),
     Text(<<"i", "n", "t", "e", "r", "s", "e", "x">>),
     Text(<<"M", "a", "l", "e", "s">>), Text(<<"m", "-", "a", "l", "e">>)}

\* The bodies a server answers the personal-info request with: an
\* OuraPersonalInfoResponse, whose fields can be null, or a
\* WhoopBodyMeasurement. Numbers are written as texts.
Profiles(type) ==
    IF type = "oura"
    THEN {[id |-> "user", age |-> "30", weight |-> "70.5", height |-> "1.75",
           biological_sex |-> sex, email |-> "user@example.com"] :
              sex \in BiologicalSexes}
         \cup
         {[id |-> "user", age |-> Null, weight |-> Null, height |-> Null,
           biological_sex |-> NoText, email |-> Null],
          [id |-> "user", age |-> "41", weight |-> Null, height |-> "1.62",
           biological_sex |-> Text(<<"i", "n", "t", "e", "r", "s", "e", "x">>),
           email |-> Null]}
    ELSE {[height_meter |-> "1.75", weight_kilogram |-> "70.5",
           max_heart_rate |-> "190"]}

\* the PersonalInfo that getPersonalInfo makes of the body
PersonalInfoOf(type, raw) ==
    IF type = "oura"
    THEN [id |-> raw.id,
          age |-> OrUndefined(raw.age),
          weight |-> OrUndefined(raw.weight),
          height |-> OrUndefined(raw.height),
          biologicalSex |-> mapBiologicalSex(raw.biological_sex),
          email |-> OrUndefined(raw.email)]
    ELSE [weight |-> raw.weight_kilogram, height |-> raw.height_meter]

\* the profile that a server of several pages holds
FewProfiles(type) ==
    {profile \in Profiles(type) :
        type = "oura" => profile.biological_sex = Text(<<"M", "a", "l", "e">>)}

\* new OuraDriver(accessToken) or new WhoopDriver(accessToken), and the pages
\* and the profile of the server it talks to: every profile on a server of
\* one page, one of them on a server of more
InitPages ==
    /\ NoCall
    /\ \E type \in {"oura", "whoop"}, accessToken \in {"", "token"} :
          /\ driver = [type |-> type, accessToken |-> accessToken]
          /\ \E n \in 1..MaxPages, profile \in Profiles(type) :
                \E sizes \in [1..n -> PageSizes], last \in {Null, ""} :
                    /\ n > 1 => profile \in FewProfiles(type)
                    /\ env = [pages |-> Pages(type, sizes, last), profile |-> profile]
    /\ tasks = <<>>
    /\ io = <<>>

\* fetchAllPages(endpoint) is called: the first turn of the loop sends a
\* request without a token and awaits the response.
FetchStart(endpoint) ==
    /\ driver.type \in {"oura", "whoop"}
    /\ Len(tasks) < MaxFetches
    /\ tasks' = Append(tasks, [method |-> "fetchAllPages", pc |-> "awaiting",
                               endpoint |-> endpoint,
                               allData |-> <<>>, nextToken |-> Null])
    /\ io' = Append(io, [by |-> Len(tasks) + 1,
                         endpoint |-> endpoint,
                         authorization |-> driver.accessToken,
                         queryParams |-> QueryParams(driver.type, Null)])
    /\ UNCHANGED <<driver, env>>
    /\ UNCHANGED callVars

\* getPersonalInfo is called: it sends one request, without parameters, and
\* awaits the response.
PersonalInfoStart ==
    /\ driver.type \in {"oura", "whoop"}
    /\ Len(tasks) < MaxFetches
    /\ tasks' = Append(tasks, [method |-> "getPersonalInfo", pc |-> "awaiting"])
    /\ io' = Append(io, [by |-> Len(tasks) + 1,
                         endpoint |-> PersonalInfoEndpoint(driver.type),
                         authorization |-> driver.accessToken,
                         queryParams |-> {}])
    /\ UNCHANGED <<driver, env>>
    /\ UNCHANGED callVars

\* The response to the request of getPersonalInfo arrives. When it is ok the
\* call resolves with the PersonalInfo made of the body. When it is not,
\* request throws: the call of an OuraDriver rejects, and the call of a
\* WhoopDriver, which catches, resolves with null. No other request is sent.
\* The value, a PersonalInfo | null, is a sequence of length 1 or 0.
PersonalInfoAnswered(t, ok) ==
    /\ driver.type \in {"oura", "whoop"}
    /\ t \in 1..Len(tasks)
    /\ tasks[t].method = "getPersonalInfo"
    /\ tasks[t].pc = "awaiting"
    /\ ok => driver.accessToken # ""
    /\ tasks' = [tasks EXCEPT ![t] =
                    IF ok
                    THEN [method |-> "getPersonalInfo", pc |-> "resolved",
                          value |-> <<PersonalInfoOf(driver.type, env.profile)>>]
                    ELSE IF driver.type = "whoop"
                    THEN [method |-> "getPersonalInfo", pc |-> "resolved",
                          value |-> <<>>]
                    ELSE [method |-> "getPersonalInfo", pc |-> "rejected",
                          error |-> "API error"]]
    /\ UNCHANGED <<driver, env, io>>
    /\ UNCHANGED callVars

\* The response arrives. When it is not ok, request throws and the call
\* rejects. Else the records of the page are pushed and the token is
\* tested: a truthy one starts the next turn, which sends the next request,
\* and a falsy one ends the loop and resolves the call. The server answers
\* ok only to a request that carries an access token.
PageAnswered(t, ok) ==
    /\ driver.type \in {"oura", "whoop"}
    /\ t \in 1..Len(tasks)
    /\ tasks[t].method = "fetchAllPages"
    /\ tasks[t].pc = "awaiting"
    /\ ok => driver.accessToken # ""
    /\ IF ~ok
       THEN /\ tasks' = [tasks EXCEPT ![t] = [method |-> "fetchAllPages",
                                              pc |-> "rejected",
                                              error |-> "API error"]]
            /\ UNCHANGED io
       ELSE LET response ==
                    env.pages[PageFor(env.pages, driver.type, LastRequest(io, t).queryParams)]
                allData == push(tasks[t].allData, response[DataField(driver.type)])
                nextToken == response.next_token
            IN  IF Truthy(nextToken)
                THEN /\ tasks' = [tasks EXCEPT ![t].allData = allData,
                                               ![t].nextToken = nextToken]
                     /\ io' = Append(io, [by |-> t,
                                          endpoint |-> tasks[t].endpoint,
                                          authorization |-> driver.accessToken,
                                          queryParams |-> QueryParams(driver.type, nextToken)])
                ELSE /\ tasks' = [tasks EXCEPT ![t] = [method |-> "fetchAllPages",
                                                       pc |-> "resolved",
                                                       value |-> allData]]
                     /\ UNCHANGED io
    /\ UNCHANGED <<driver, env>>
    /\ UNCHANGED callVars

FetchCall == \E endpoint \in ListEndpoints(driver.type) : FetchStart(endpoint)
PageResponse == \E t \in 1..Len(tasks), ok \in BOOLEAN : PageAnswered(t, ok)
PersonalInfoResponse ==
    \E t \in 1..Len(tasks), ok \in BOOLEAN : PersonalInfoAnswered(t, ok)

NextPages == FetchCall \/ PageResponse \/ PersonalInfoStart \/ PersonalInfoResponse
SpecPages == InitPages /\ [][NextPages]_vars
\* fetch settles: every request is answered or fails
SpecPagesFair ==
    SpecPages
    /\ \A t \in 1..MaxFetches :
          /\ WF_vars(\E ok \in BOOLEAN : PageAnswered(t, ok))
          /\ WF_vars(\E ok \in BOOLEAN : PersonalInfoAnswered(t, ok))

----------------------------------------------------------------------------
(* The getters of metrics that a platform does not have *)

\* The getters whose body is `return []`
UnsupportedGetters ==
    [renpho |-> {"getSleep", "getDailySleep", "getDailyActivity", "getWorkouts",
                 "getReadiness", "getHeartRate", "getHRV", "getSpO2", "getStress",
                 "getBodyTemperature", "getVO2Max"},
     oura |-> {"getBodyComposition", "getWeightMeasurements"},
     whoop |-> {"getVO2Max", "getBodyComposition", "getWeightMeasurements"},
     apple_health |-> {"getReadiness", "getStress"}]

\* async getX() { return [] } with a load of the export put before it
GetUnsupported_loads(name) ==
    /\ name \in UnsupportedGetters[driver.type]
    /\ Len(tasks) < MaxDriverCalls
    /\ IF driver.type = "apple_health"
       THEN LET s == ensureLoaded([driver |-> driver, io |-> io,
                                   threw |-> FALSE, value |-> <<>>], env)
            IN  driver' = s.driver /\ io' = s.io
       ELSE UNCHANGED <<driver, io>>
    /\ tasks' = Append(tasks, [method |-> name, pc |-> "resolved", value |-> <<>>])
    /\ UNCHANGED env
    /\ UNCHANGED callVars

\* async getX() { return [] }
GetUnsupported(name) ==
    /\ name \in UnsupportedGetters[driver.type]
    /\ Len(tasks) < MaxDriverCalls
    /\ tasks' = Append(tasks, [method |-> name, pc |-> "resolved", value |-> <<>>])
    /\ UNCHANGED <<driver, env, io>>
    /\ UNCHANGED callVars

GetterNames == UNION {UnsupportedGetters[type] : type \in DOMAIN UnsupportedGetters}
UnsupportedCall == \E name \in GetterNames : GetUnsupported(name)

\* A driver of any of the four platforms, and every call on it
InitDrivers == InitRenpho \/ InitApple \/ InitPages
NextDrivers == NextRenpho \/ NextApple \/ NextPages \/ UnsupportedCall
SpecDrivers == InitDrivers /\ [][NextDrivers]_vars

----------------------------------------------------------------------------
(* Claims about analyzeSleepDebt *)

Chronological(sessions) ==
    \A i \in 1..(Len(sessions) - 1) : sessions[i].day <= sessions[i + 1].day

\* the nightly deficits max(0, target - actual), in seconds
NightlyDeficits(sessions, targetMinutes) ==
    [i \in 1..Len(sessions) |-> Max(0, targetMinutes * 60 - sessions[i].totalSleepDuration)]

\* C3: currentDebtMinutes is the sum over all sessions of max(0, target - actual),
\* in minutes: a night longer than the target never cancels another night's deficit.
C3_DebtSumsNightlyDeficits ==
    Returned("analyzeSleepDebt") =>
        result.currentDebtMinutes =
            RoundDiv(Sum(NightlyDeficits(args.sessions, args.targetMinutes)), 60)

\* the trend the documentation describes: a difference of 10 minutes or more
\* between the averages of the two halves changes the trend
DocumentedTrend(laterSum, laterN, earlierSum, earlierN) ==
    IF laterSum * earlierN >= (earlierSum + 600 * earlierN) * laterN THEN "recovering"
    ELSE IF laterSum * earlierN <= (earlierSum - 600 * earlierN) * laterN THEN "accumulating"
    ELSE "stable"

\* C4: the trend is 'recovering' when the later half averages at least 10 minutes
\* (600 s) more sleep than the earlier half, 'accumulating' when at least 10 minutes
\* less, 'stable' otherwise; exactly 10 minutes already changes the trend.  Stated
\* for arrays of four or more sessions that are listed oldest first, where the
\* halves of the array are the chronological halves.
C4_TenMinutesChangeTrend ==
    (/\ Returned("analyzeSleepDebt")
     /\ Len(args.sessions) >= 4
     /\ Chronological(args.sessions)) =>
        LET n       == Len(args.sessions)
            mid     == n \div 2
            later   == [i \in 1..(n - mid) |-> args.sessions[mid + i].totalSleepDuration]
            earlier == [i \in 1..mid |-> args.sessions[i].totalSleepDuration]
        IN  result.trend = DocumentedTrend(Sum(later), n - mid, Sum(earlier), mid)

Permuted(s, f) == [i \in 1..Len(s) |-> s[f[i]]]

\* C5: the halves compared are the chronological ones, so every permutation of
\* the same sessions array yields the same trend and the same whole result.
C5_DebtIgnoresArrayOrder ==
    Returned("analyzeSleepDebt") =>
        \A f \in Permutations(1..Len(args.sessions)) :
            analyzeSleepDebt(Permuted(args.sessions, f), args.targetMinutes) = result

SixHourNights(sessions) ==
    Len(sessions) = 3 /\ \A i \in 1..3 : sessions[i].totalSleepDuration = 6 * 3600

\* C6: currentDebtMinutes >= 0 and daysToRecover = ceil(currentDebtMinutes / 30),
\* which is 0 exactly when the debt is 0; an empty array returns 0, 0, 'stable', 0;
\* three 6-hour nights against a target of 480 return 360, 'stable', 12.
C6_DebtAndDaysToRecover ==
    Returned("analyzeSleepDebt") =>
        /\ result.currentDebtMinutes >= 0
        /\ result.daysToRecover * 30 >= result.currentDebtMinutes
        /\ (result.daysToRecover - 1) * 30 < result.currentDebtMinutes
        /\ (result.daysToRecover = 0 <=> result.currentDebtMinutes = 0)
        /\ (Len(args.sessions) = 0 =>
                /\ result.currentDebtMinutes = 0
                /\ result.weeklyAverageMinutes = 0
                /\ result.trend = "stable"
                /\ result.daysToRecover = 0)
        /\ (SixHourNights(args.sessions) /\ args.targetMinutes = 480 =>
                /\ result.currentDebtMinutes = 360
                /\ result.trend = "stable"
                /\ result.daysToRecover = 12)

\* three 6-hour nights against 480 minutes have returned a debt of 360 minutes
C6_Witness ==
    /\ Returned("analyzeSleepDebt")
    /\ SixHourNights(args.sessions)
    /\ args.targetMinutes = 480
    /\ result.currentDebtMinutes = 360
    /\ result.daysToRecover = 12

----------------------------------------------------------------------------
(* Claims about calculateTrainingReadiness and calculateRecovery *)

AllMissing(params) ==
    /\ Missing(params.hrv)
    /\ Missing(params.sleep)
    /\ Missing(params.readiness)
    /\ Missing(params.heartRate)
    /\ Missing(params.activity)

\* C1: calculateTrainingReadiness never fails on missing data: each factor fed
\* by an input that is absent or an empty array is 50 (hrv -> hrvStatus, sleep ->
\* sleepQuality and sleepDebt, readiness -> recoveryLevel, heartRate ->
\* restingHeartRate, activity -> activityBalance); with every input missing all
\* six factors are 50, the score is 50 and the recommendation is 'easy_day'.
C1_MissingInputsScoreFifty ==
    Returned("calculateTrainingReadiness") =>
        /\ Missing(args.hrv) => result.factors.hrvStatus = 50
        /\ Missing(args.sleep) =>
              result.factors.sleepQuality = 50 /\ result.factors.sleepDebt = 50
        /\ Missing(args.readiness) => result.factors.recoveryLevel = 50
        /\ Missing(args.heartRate) => result.factors.restingHeartRate = 50
        /\ Missing(args.activity) => result.factors.activityBalance = 50
        /\ AllMissing(args) =>
              /\ \A f \in DOMAIN result.factors : result.factors[f] = 50
              /\ result.score = 50
              /\ result.recommendation = "easy_day"

\* a call with hrv an empty array and sleep left out, the other inputs given,
\* has returned 50 for the missing factors and other scores for the rest
C1_Witness ==
    /\ Returned("calculateTrainingReadiness")
    /\ args.hrv.present /\ Len(args.hrv.items) = 0
    /\ ~args.sleep.present
    /\ ~Missing(args.readiness) /\ ~Missing(args.heartRate) /\ ~Missing(args.activity)
    /\ result.factors.hrvStatus = 50
    /\ result.factors.sleepQuality = 50
    /\ result.factors.sleepDebt = 50
    /\ result.factors.recoveryLevel # 50
    /\ result.factors.restingHeartRate # 50
    /\ result.factors.activityBalance # 50

\* C2: for any inputs to calculateTrainingReadiness and calculateRecovery,
\* platform-reported DailyReadiness.score values outside 0-100 included, every
\* value of the returned factors and the overall score lies in [0, 100].
C2_ScoresWithinZeroToHundred ==
    (Returned("calculateTrainingReadiness") \/ Returned("calculateRecovery")) =>
        /\ result.score \in 0..100
        /\ \A f \in DOMAIN result.factors : result.factors[f] \in 0..100

\* the sessions that carry a lowestHeartRate
WithLowestHeartRate(sleep) ==
    {i \in 1..Len(sleep.items) : Len(sleep.items[i].lowestHeartRate) > 0}

\* C7: calculateRecovery defaults each factor to 50 when its data is missing or
\* below its minimum sample size: sleepScore with no sessions, hrvTrend with fewer
\* than 3 HRV samples, restingHRTrend with fewer than 3 sessions carrying
\* lowestHeartRate, strainBalance with fewer than 3 activity days; with nothing
\* given all four factors are 50, the score is 50 and the status
\* 'partially_recovered'.
C7_RecoveryDefaultsToFifty ==
    Returned("calculateRecovery") =>
        /\ Missing(args.sleep) => result.factors.sleepScore = 50
        /\ FewerThan(args.hrv, 3) => result.factors.hrvTrend = 50
        /\ Cardinality(WithLowestHeartRate(args.sleep)) < 3 =>
              result.factors.restingHRTrend = 50
        /\ FewerThan(args.activity, 3) => result.factors.strainBalance = 50
        /\ (~args.sleep.present /\ ~args.hrv.present /\ ~args.activity.present) =>
              /\ \A f \in DOMAIN result.factors : result.factors[f] = 50
              /\ result.score = 50
              /\ result.status = "partially_recovered"

\* three sessions of which only two carry a lowestHeartRate have returned a
\* neutral restingHRTrend beside a sleepScore taken from the last night
C7_Witness ==
    /\ Returned("calculateRecovery")
    /\ args.sleep.present /\ Len(args.sleep.items) = 3
    /\ Cardinality(WithLowestHeartRate(args.sleep)) = 2
    /\ result.factors.restingHRTrend = 50
    /\ result.factors.sleepScore # 50

\* the activity scores in day order (the days of an array are distinct)
ScoresByDay(activity) ==
    LET n == Len(activity.items)
        at(d) == CHOOSE i \in 1..n :
                    Cardinality({j \in 1..n : activity.items[j].day < activity.items[i].day}) = d - 1
    IN  [d \in 1..n |-> activity.items[at(d)].score]

\* C8 as stated: for every activity array holding exactly 3, 4, 5 or 6 records
\* the previous-period window of the strain balance is empty and the
\* strainBalance factor is the neutral 50.
C8_ThreeToSixDaysAreNeutral ==
    (/\ Returned("calculateRecovery")
     /\ args.activity.present
     /\ Len(args.activity.items) \in 3..6) =>
        /\ PreviousPeriod(ScoresByDay(args.activity)) = <<>>
        /\ result.factors.strainBalance = 50

\* C8 as amended: with exactly 3 records the previous-period window is empty and
\* strainBalance is 50; with 4, 5 or 6 records the window holds the scores of the
\* n - 3 earliest days and strainBalance is the tier of the mean of the last 3
\* days against their mean (90, 75, 60, 45 or 30), never the neutral 50.
C8_OnlyThreeDaysAreNeutral ==
    (/\ Returned("calculateRecovery")
     /\ args.activity.present
     /\ Len(args.activity.items) \in 3..6) =>
        LET scores   == ScoresByDay(args.activity)
            n        == Len(scores)
            earliest == [i \in 1..(n - 3) |-> scores[i]]
            last3    == [i \in 1..3 |-> scores[n - 3 + i]]
        IN  /\ PreviousPeriod(scores) = earliest
            /\ n = 3 => result.factors.strainBalance = 50
            /\ n > 3 =>
                  /\ result.factors.strainBalance \in {90, 75, 60, 45, 30}
                  /\ result.factors.strainBalance =
                        StrainTier(Sum(last3), Sum(earliest), n - 3)

\* four activity days have returned a strain balance scored against the single
\* earliest day
C8_Witness ==
    /\ Returned("calculateRecovery")
    /\ args.activity.present
    /\ Len(args.activity.items) = 4
    /\ Len(PreviousPeriod(ScoresByDay(args.activity))) = 1
    /\ result.factors.strainBalance \in {90, 75, 60, 45, 30}

----------------------------------------------------------------------------
(* Claims about analyzeTrend *)

\* the values in day order (the days of an array are distinct)
ValuesByDay(points) ==
    LET n == Len(points)
        at(d) == CHOOSE i \in 1..n :
                    Cardinality({j \in 1..n : points[j].day < points[i].day}) = d - 1
    IN  [d \in 1..n |-> points[at(d)].value]

\* r, in hundredths, is n / d rounded to 2 decimals (d # 0): a nearest
\* hundredth, either of the two when n / d lies halfway between them
IsRounded2(r, n, d) ==
    LET x == 100 * n - r * d    \* (n / d - r / 100) * 100 * d
    IN  IF d > 0 THEN 0 - d <= 2 * x /\ 2 * x <= d
                 ELSE 0 - d >= 2 * x /\ 2 * x >= d

\* the averages and the percent change of halves with sums prevSum, curSum and
\* sizes prevN, curN as the result reports them; the mean of no points is 0
ReportsHalves(res, prevSum, prevN, curSum, curN) ==
    /\ IsRounded2(res.currentAverage, curSum, curN)
    /\ IF prevN = 0 THEN res.previousAverage = 0
                    ELSE IsRounded2(res.previousAverage, prevSum, prevN)
    /\ IF prevN = 0 \/ prevSum = 0 THEN res.percentChange = 0
       ELSE IsRounded2(res.percentChange,
                       100 * (curSum * prevN - prevSum * curN), prevSum * curN)

TenTenTwentyTwenty(points) == ValuesByDay(points) = <<10, 10, 20, 20>>

TrendExamples ==
    /\ TenTenTwentyTwenty(args.dataPoints) =>
          /\ result.previousAverage = 1000
          /\ result.currentAverage = 2000
          /\ result.percentChange = 10000
          /\ result.direction = "improving"
    /\ Len(args.dataPoints) = 0 =>
          /\ result.previousAverage = 0
          /\ result.currentAverage = 0
          /\ result.percentChange = 0
          /\ result.direction = "stable"

\* C9 as stated: for every non-empty point list, with the points sorted by day
\* and mid = floor(n / 2), previousAverage is the mean of sorted points [0, mid),
\* currentAverage the mean of sorted points [mid, n), percentChange =
\* (current - previous) / previous x 100 or 0 when the previous average is 0, all
\* rounded to 2 decimals; 10, 10, 20, 20 give 10, 20, 100, 'improving'; an empty
\* list gives all zeros and 'stable'.
C9_HalvesOfEveryList ==
    Returned("analyzeTrend") =>
        /\ TrendExamples
        /\ Len(args.dataPoints) > 0 =>
              LET values == ValuesByDay(args.dataPoints)
                  n      == Len(values)
                  mid    == n \div 2
              IN  ReportsHalves(result, Sum(SubSeq(values, 1, mid)), mid,
                                Sum(SubSeq(values, mid + 1, n)), n - mid)

\* C9 as amended: the same for every list of two or more points; for a list of a
\* single point (mid = 0, no previous points) previousAverage equals
\* currentAverage, the value of the point, percentChange is 0 and direction
\* is 'stable'.
C9_HalvesOfTwoOrMore ==
    Returned("analyzeTrend") =>
        /\ TrendExamples
        /\ Len(args.dataPoints) > 1 =>
              LET values == ValuesByDay(args.dataPoints)
                  n      == Len(values)
                  mid    == n \div 2
              IN  ReportsHalves(result, Sum(SubSeq(values, 1, mid)), mid,
                                Sum(SubSeq(values, mid + 1, n)), n - mid)
        /\ Len(args.dataPoints) = 1 =>
              /\ result.currentAverage = 100 * args.dataPoints[1].value
              /\ result.previousAverage = result.currentAverage
              /\ result.percentChange = 0
              /\ result.direction = "stable"

\* the values 10, 10, 20, 20, listed newest first, have returned 10, 20, 100
C9_Witness ==
    /\ Returned("analyzeTrend")
    /\ TenTenTwentyTwenty(args.dataPoints)
    /\ args.dataPoints[1].day = 4
    /\ result.previousAverage = 1000
    /\ result.currentAverage = 2000
    /\ result.percentChange = 10000

\* C10: in every HealthTrend returned, direction is 'improving' exactly when the
\* returned percentChange is >= 5, 'declining' exactly when it is <= -5, and
\* 'stable' otherwise (percentChange is in hundredths).
C10_DirectionFollowsReturnedPercent ==
    Returned("analyzeTrend") =>
        /\ result.direction = "improving" <=> result.percentChange >= 500
        /\ result.direction = "declining" <=> result.percentChange <= 0 - 500
        /\ result.direction = "stable" <=>
              (result.percentChange > 0 - 500 /\ result.percentChange < 500)

----------------------------------------------------------------------------
(* Claims about detectAnomalies *)

SumOfValues(points) == Sum(Field(points, Value))
SumOfSquaredValues(points) ==
    Sum([i \in 1..Len(points) |-> points[i].value * points[i].value])

\* the sum over the points of (value - mean)^2, times the number of points
SpreadOf(points) ==
    Len(points) * SumOfSquaredValues(points) - SumOfValues(points) * SumOfValues(points)

AllValuesEqual(points) ==
    \A i, j \in 1..Len(points) : points[i].value = points[j].value

\* |value - mean| / stdDev >= num / den for the i-th point: squared and
\* multiplied out, stdDev^2 being SpreadOf / n^2 and value - mean being
\* (n * value - sum) / n
Deviant(points, i, threshold) ==
    LET d == Len(points) * points[i].value - SumOfValues(points)
    IN  d * d * threshold.den * threshold.den
            >= threshold.num * threshold.num * SpreadOf(points)

\* C11: detectAnomalies returns an empty list for fewer than 5 points or when
\* all values are equal; otherwise it returns exactly the input points whose
\* (value - mean) / stdDev has absolute value >= stdDevThreshold, in input
\* order, each with its signed deviation (negative below the mean, positive
\* above it).
C11_AnomaliesAreTheDeviantPoints ==
    Returned("detectAnomalies") =>
        LET points  == args.dataPoints
            n       == Len(points)
            deviant == {i \in 1..n : Deviant(points, i, args.stdDevThreshold)}
        IN  IF n < 5 \/ AllValuesEqual(points)
            THEN result = <<>>
            ELSE /\ Len(result) = Cardinality(deviant)
                 /\ \A i \in deviant :
                       LET k == Cardinality({j \in deviant : j <= i})
                           d == result[k].deviation
                       IN  /\ result[k].day = points[i].day
                           /\ result[k].value = points[i].value
                           /\ d.diff = n * points[i].value - SumOfValues(points)
                           /\ d.count = n
                           /\ d.squares = n * SpreadOf(points)
                           /\ d.diff < 0 <=> n * points[i].value < SumOfValues(points)
                           /\ d.diff > 0 <=> n * points[i].value > SumOfValues(points)

\* C12: with threshold 2 on the ten daily values 45, 48, 42, 47, 22, 44, 46, 75,
\* 43, 49 (days 1 to 10), detectAnomalies flags exactly two points: day 5
\* (value 22, below the mean) and day 8 (value 75, above the mean).
C12_DocumentedExampleFlagsTwo ==
    (/\ Returned("detectAnomalies")
     /\ args.dataPoints = PointArray(10, "asc", DocumentedValues)
     /\ args.stdDevThreshold = [num |-> 2, den |-> 1])
    => /\ Len(result) = 2
       /\ result[1].day = 5 /\ result[1].value = 22 /\ result[1].deviation.diff < 0
       /\ result[2].day = 8 /\ result[2].value = 75 /\ result[2].deviation.diff > 0

----------------------------------------------------------------------------
(* Claims about calculateMovingAverage *)

\* C13: calculateMovingAverage with windowSize >= 1 returns one entry per input
\* point in ascending day order; entry i (from 0) carries the day of the i-th
\* point in day order and the mean, rounded to 2 decimals, of the values at
\* positions max(0, i - windowSize + 1) .. i in day order: early entries
\* average the shorter prefix that exists, never a padded window.
C13_MovingAverageIsTrailingMean ==
    (Returned("calculateMovingAverage") /\ args.windowSize >= 1) =>
        LET points == args.dataPoints
            n      == Len(points)
            values == ValuesByDay(points)
        IN  /\ Len(result) = n
            /\ \A i \in 0..(n - 1) :
                  LET first == Max(0, i - args.windowSize + 1)
                      size  == i - first + 1
                      total == Sum([k \in 1..size |-> values[first + k]])
                  IN  /\ \E j \in 1..n : points[j].day = result[i + 1].day
                      /\ Cardinality({j \in 1..n : points[j].day < result[i + 1].day}) = i
                      /\ IsRounded2(result[i + 1].value, total, size)

\* four points listed newest first, under a window of 3: the first entry is
\* the earliest value alone, the second the mean of two, and a full window has
\* a mean that needed rounding
C13_Witness ==
    /\ Returned("calculateMovingAverage")
    /\ args.windowSize = 3
    /\ Len(args.dataPoints) = 4
    /\ args.dataPoints[1].day = 4
    /\ result[1].value = 100 * args.dataPoints[4].value
    /\ 2 * result[2].value = 100 * (args.dataPoints[4].value + args.dataPoints[3].value)
    /\ result[4].value % 100 \notin {0, 50}

----------------------------------------------------------------------------
(* Claims about all the analyzers *)

\* what a method returns for given arguments when no call was made before
FirstCallResult(m, a) ==
    CASE m = "analyzeSleepDebt" -> analyzeSleepDebt(a.sessions, a.targetMinutes)
      [] m = "calculateTrainingReadiness" -> calculateTrainingReadiness(a)
      [] m = "calculateRecovery" -> calculateRecovery(a)
      [] m = "analyzeTrend" -> analyzeTrend(a.metric, a.dataPoints, a.periodDays)
      [] m = "analyzeMultipleMetrics" -> analyzeMultipleMetrics(a.metrics, a.periodDays)
      [] m = "calculateMovingAverage" -> calculateMovingAverage(a.dataPoints, a.windowSize)
      [] m = "detectAnomalies" -> detectAnomalies(a.dataPoints, a.stdDevThreshold)
      [] m = "scoreSleepQuality" -> scoreSleepQuality(a.session)
      [] m = "scoreSleepConsistency" -> scoreSleepConsistency(a.sessions, a.timeZone)

\* C14: every analyzer method is deterministic and history-independent: after
\* any sequence of earlier calls, on new arrays or on the arrays an earlier
\* call was given, a call returns what a first call returns for the inputs
\* as the caller created them, so that the same or structurally equal inputs
\* always get identical outputs and no call leaves anything a later call
\* can observe.
C14_CallsAreHistoryIndependent ==
    /\ pc = "returned" =>
          /\ result = FirstCallResult(method, created)
          /\ history[Len(history)].method = method
          /\ history[Len(history)].created = created
          /\ history[Len(history)].result = result
    /\ \A i, j \in 1..Len(history) :
          (history[i].method = history[j].method
              /\ history[i].created = history[j].created)
              => history[i].result = history[j].result

\* detectAnomalies was called on an array listed newest first and flagged two
\* points or more; analyzeTrend was then called on the same array and
\* returned its points in day order; detectAnomalies, called on the array
\* once more with the threshold of the first call, has returned what it
\* returned then
C14_Witness ==
    /\ pc = "returned"
    /\ Len(history) = 3
    /\ history[1].method = "detectAnomalies"
    /\ history[1].args.dataPoints[1].day > history[1].args.dataPoints[2].day
    /\ Len(history[1].result) >= 2
    /\ history[2].method = "analyzeTrend"
    /\ history[2].created.dataPoints = history[1].created.dataPoints
    /\ history[2].result.dataPoints # history[2].args.dataPoints
    /\ history[3].method = "detectAnomalies"
    /\ history[3].created = history[1].created
    /\ history[3].result = history[1].result

\* C15: no analyzer method changes its inputs: once a call has returned, every
\* input array holds the same elements in the same order, and every record
\* the same field values, as when the call was made.
C15_InputsAreLeftAsGiven ==
    pc = "returned" =>
        /\ history[Len(history)].method = method
        /\ args = history[Len(history)].args
        /\ args = created

\* analyzeTrend has returned the points in day order while the array it was
\* given is still listed newest first
C15_Witness ==
    /\ Returned("analyzeTrend")
    /\ Len(args.dataPoints) >= 2
    /\ args.dataPoints[1].day > args.dataPoints[2].day
    /\ result.dataPoints[1].day < result.dataPoints[2].day
    /\ args = history[1].args

----------------------------------------------------------------------------
(* Claims about the order of the input arrays *)

\* an array with the records at positions i < j exchanged (every permutation
\* is a sequence of such exchanges)
Swapped(p, i, j) ==
    [p EXCEPT !.items = SubSeq(@, 1, i - 1) \o <<@[j]>> \o SubSeq(@, i + 1, j - 1)
                            \o <<@[i]>> \o SubSeq(@, j + 1, Len(@))]

\* the arguments with two records of one of the arrays exchanged
Exchanges(params) ==
    UNION {{[params EXCEPT ![name] = Swapped(@, pair[1], pair[2])] :
                pair \in {q \in (1..Len(params[name].items)) \X (1..Len(params[name].items)) :
                              q[1] < q[2]}} :
           name \in DOMAIN params}

\* C16: calculateTrainingReadiness and calculateRecovery do not depend on the
\* order of their input arrays: whichever way the hrv, sleep, readiness,
\* heartRate and activity arrays are permuted, the returned score, factors and
\* recommendation (or status) are identical.
C16_ScoresIgnoreArrayOrder ==
    /\ Returned("calculateTrainingReadiness") =>
          \A other \in Exchanges(args) :
              LET again == calculateTrainingReadiness(other)
              IN  /\ again.score = result.score
                  /\ again.factors = result.factors
                  /\ again.recommendation = result.recommendation
    /\ Returned("calculateRecovery") =>
          \A other \in Exchanges(args) :
              LET again == calculateRecovery(other)
              IN  /\ again.score = result.score
                  /\ again.factors = result.factors
                  /\ again.status = result.status

----------------------------------------------------------------------------
(* Claims about the sleep scores *)

\* the minute of the day the host's clock shows at an instant
ClockMinute(instant, timeZone) == (instant + OffsetAt(timeZone, instant)) % 1440

\* every night went to bed at one minute of the day and rose at one minute of
\* the day, on the clock of the host
SameClockTimes(sessions, timeZone) ==
    \A i, j \in 1..Len(sessions) :
        /\ ClockMinute(sessions[i].bedtimeStart, timeZone)
              = ClockMinute(sessions[j].bedtimeStart, timeZone)
        /\ ClockMinute(sessions[i].bedtimeEnd, timeZone)
              = ClockMinute(sessions[j].bedtimeEnd, timeZone)

\* C17: scoreSleepConsistency returns exactly 50 for fewer than 3 sessions (0,
\* 1 or 2), whatever their bedtimes and wake times; for 3 or more sessions the
\* result is an integer from 0 to 100, and it is 100 when all bedtimes and all
\* wake times fall on the same minute of the day, as the clock of the host
\* shows them.
C17_ConsistencyNeedsThreeNights ==
    Returned("scoreSleepConsistency") =>
        /\ Len(args.sessions) < 3 => result = 50
        /\ Len(args.sessions) >= 3 =>
              /\ result \in 0..100
              /\ SameClockTimes(args.sessions, args.timeZone) => result = 100

\* two nights with different bedtimes have been scored 50, on a host whose
\* clock was put forward between them
C17_Witness ==
    /\ Returned("scoreSleepConsistency")
    /\ Len(args.sessions) = 2
    /\ args.timeZone.changes # <<>>
    /\ ~SameClockTimes(args.sessions, args.timeZone)
    /\ result = 50

\* C18: for any SleepSession, including negative durations, durations above 24
\* hours, efficiency outside 0-100 and negative latency, scoreSleepQuality
\* returns durationScore, efficiencyScore, deepSleepScore, remSleepScore,
\* latencyScore, consistencyScore and overall all within [0, 100].
C18_QualityScoresWithinZeroToHundred ==
    Returned("scoreSleepQuality") =>
        /\ result.durationScore \in 0..100
        /\ result.efficiencyScore \in 0..100
        /\ result.deepSleepScore \in 0..100
        /\ result.remSleepScore \in 0..100
        /\ result.latencyScore \in 0..100
        /\ result.consistencyScore \in 0..100
        /\ result.overall \in 0..100

\* a session of more than 24 hours with an efficiency above 100, a negative
\* deep-sleep duration and a negative latency has been scored
C18_Witness ==
    /\ Returned("scoreSleepQuality")
    /\ args.session.totalSleepDuration > 24 * 3600
    /\ args.session.efficiency > 100
    /\ args.session.deepSleepDuration < 0
    /\ args.session.latency < 0
    /\ result.overall \in 0..100

\* the weighted sum of the six component scores, in hundredths
WeightedQuality(score) ==
    25 * score.durationScore + 20 * score.efficiencyScore + 20 * score.deepSleepScore
        + 15 * score.remSleepScore + 10 * score.latencyScore + 10 * score.consistencyScore

\* C19: scoreSleepQuality computes overall = round(0.25*duration +
\* 0.20*efficiency + 0.20*deep + 0.15*rem + 0.10*latency + 0.10*consistency)
\* with consistencyScore fixed at 50, and the rating is 'excellent' exactly
\* when overall >= 85, 'good' when 70 <= overall < 85, 'fair' when
\* 50 <= overall < 70 and 'poor' when overall < 50.
C19_OverallIsWeightedAndRated ==
    Returned("scoreSleepQuality") =>
        /\ result.consistencyScore = 50
        /\ 100 * result.overall - 50 <= WeightedQuality(result)
        /\ WeightedQuality(result) < 100 * result.overall + 50
        /\ result.rating = "excellent" <=> result.overall >= 85
        /\ result.rating = "good" <=> (70 <= result.overall /\ result.overall < 85)
        /\ result.rating = "fair" <=> (50 <= result.overall /\ result.overall < 70)
        /\ result.rating = "poor" <=> result.overall < 50

\* a session whose overall score is 84, one below 'excellent', has been rated
\* 'good'
C19_Witness ==
    /\ Returned("scoreSleepQuality")
    /\ result.overall = 84
    /\ result.rating = "good"

----------------------------------------------------------------------------
(* Claims about the readiness score and its recommendation *)

\* the weighted sum of the six factors, in hundredths
WeightedReadiness(factors) ==
    25 * factors.hrvStatus + 25 * factors.sleepQuality + 15 * factors.recoveryLevel
        + 15 * factors.restingHeartRate + 10 * factors.activityBalance
        + 10 * factors.sleepDebt

\* the sentence that opens the details of each recommendation
BaseSentence(recommendation) ==
    CASE recommendation = "go_hard" ->
             "Body is well recovered and ready for high-intensity training."
      [] recommendation = "moderate" ->
             "Moderate readiness. Steady-state or technique work recommended."
      [] recommendation = "easy_day" ->
             "Below average readiness. Light activity or active recovery advised."
      [] recommendation = "rest" ->
             "Low readiness. Rest day recommended to support recovery."

\* C20: calculateTrainingReadiness returns score = round(0.25*hrvStatus +
\* 0.25*sleepQuality + 0.15*recoveryLevel + 0.15*restingHeartRate +
\* 0.10*activityBalance + 0.10*sleepDebt); the recommendation is 'go_hard'
\* exactly when score >= 80, 'moderate' when 60 <= score < 80, 'easy_day' when
\* 40 <= score < 60 and 'rest' when score < 40; and the base sentence of
\* details is the one of the same tier as the recommendation.
C20_ScoreIsWeightedAndTiered ==
    Returned("calculateTrainingReadiness") =>
        /\ 100 * result.score - 50 <= WeightedReadiness(result.factors)
        /\ WeightedReadiness(result.factors) < 100 * result.score + 50
        /\ result.recommendation = "go_hard" <=> result.score >= 80
        /\ result.recommendation = "moderate" <=> (60 <= result.score /\ result.score < 80)
        /\ result.recommendation = "easy_day" <=> (40 <= result.score /\ result.score < 60)
        /\ result.recommendation = "rest" <=> result.score < 40
        /\ result.details[1] = BaseSentence(result.recommendation)

\* a call whose weighted sum is 79.5 has been scored 80 and told to go hard
C20_Witness ==
    /\ Returned("calculateTrainingReadiness")
    /\ WeightedReadiness(result.factors) = 7950
    /\ result.score = 80
    /\ result.recommendation = "go_hard"
    /\ result.details[1] = BaseSentence("go_hard")

----------------------------------------------------------------------------
(* Claims about the tiers of the sleep scores *)

\* durations from 0 to 1.10 x 8 hours in steps of 12 minutes (every tier
\* boundary of scoreDuration is a step), efficiencies and latencies around
\* their tiers
DurationGrid == {k * 720 : k \in 0..44}
EfficiencyGrid == (0 - 5)..120
LatencyGrid == {k * 60 : k \in (0 - 1)..61} \cup {3601}

\* C23: the durationScore of scoreSleepQuality never decreases as
\* totalSleepDuration increases from 0 up to 1.10 x 8 hours; efficiencyScore
\* never decreases as efficiency increases; latencyScore never increases as
\* latency increases (a shorter latency never scores lower).
C23_TiersAreMonotone ==
    Returned("scoreSleepQuality") =>
        /\ args.session.totalSleepDuration \in 0..(110 * IDEAL_SLEEP_DURATION) \div 100 =>
              \A d \in DurationGrid :
                  d >= args.session.totalSleepDuration =>
                      scoreSleepQuality([args.session EXCEPT !.totalSleepDuration = d]).durationScore
                          >= result.durationScore
        /\ \A e \in EfficiencyGrid :
              e >= args.session.efficiency =>
                  scoreSleepQuality([args.session EXCEPT !.efficiency = e]).efficiencyScore
                      >= result.efficiencyScore
        /\ \A l \in LatencyGrid :
              l >= args.session.latency =>
                  scoreSleepQuality([args.session EXCEPT !.latency = l]).latencyScore
                      <= result.latencyScore

\* a night of 0.85 x 8 hours, efficiency 85 and half an hour of latency has
\* been scored in the second tier of each
C23_Witness ==
    /\ Returned("scoreSleepQuality")
    /\ args.session.totalSleepDuration = 24480
    /\ args.session.efficiency = 85
    /\ args.session.latency = 1800
    /\ result.durationScore = 80
    /\ result.efficiencyScore = 80
    /\ result.latencyScore = 80

\* one of the sessions recorded no sleep at all
HasSleeplessSession(sessions) ==
    \E i \in 1..Len(sessions.items) : sessions.items[i].totalSleepDuration = 0

\* C24: for a session whose totalSleepDuration is 0, scoreSleepQuality
\* completes and returns deepSleepScore = 0 and remSleepScore = 0, for any
\* deep and REM durations; calculateTrainingReadiness and calculateRecovery
\* also complete on such a session, with a sleep factor that is a number from
\* 0 to 100.
C24_ZeroTotalScoresZero ==
    /\ Returned("scoreSleepQuality") /\ args.session.totalSleepDuration = 0 =>
          /\ result.deepSleepScore = 0
          /\ result.remSleepScore = 0
          /\ result.overall \in 0..100
    /\ Returned("calculateTrainingReadiness") /\ HasSleeplessSession(args.sleep) =>
          /\ result.score \in Int
          /\ result.factors.sleepQuality \in 0..100
          /\ result.factors.sleepDebt \in 0..100
    /\ Returned("calculateRecovery") /\ HasSleeplessSession(args.sleep) =>
          /\ result.score \in 0..100
          /\ result.factors.sleepScore \in 0..100

\* a session with no sleep in total but with deep and REM durations recorded
\* has been scored
C24_Witness ==
    /\ Returned("scoreSleepQuality")
    /\ args.session.totalSleepDuration = 0
    /\ args.session.deepSleepDuration > 0
    /\ args.session.remSleepDuration > 0
    /\ result.deepSleepScore = 0
    /\ result.remSleepScore = 0

----------------------------------------------------------------------------
(* Claims about the factors of the readiness score *)

\* the sum of the hrv values of the samples at a set of positions
RECURSIVE HrvTotal(_, _)
HrvTotal(items, positions) ==
    IF positions = {} THEN 0
    ELSE LET i == CHOOSE p \in positions : TRUE
         IN  items[i].hrv + HrvTotal(items, positions \ {i})

\* the positions of the 3 samples with the latest timestamps
LatestThree(items) ==
    {i \in 1..Len(items) :
        Cardinality({j \in 1..Len(items) : items[j].timestamp > items[i].timestamp}) < 3}

\* C25: the hrvStatus factor of calculateTrainingReadiness is, with 1 to 6
\* samples, the tier of the mean HRV (>= 60 -> 90, >= 40 -> 70, >= 25 -> 50,
\* else 30); with 7 or more samples it is the tier of ratio = mean of the 3
\* latest values / mean of all the other values (>= 1.05 -> 95, >= 0.95 -> 80,
\* >= 0.85 -> 60, >= 0.75 -> 40, else 25): the 3 latest values never enter
\* the baseline.
C25_HrvStatusTiers ==
    Returned("calculateTrainingReadiness") /\ args.hrv.present /\ Len(args.hrv.items) > 0 =>
        LET items    == args.hrv.items
            n        == Len(items)
            total    == HrvTotal(items, 1..n)
            recent   == HrvTotal(items, LatestThree(items))
            baseline == HrvTotal(items, (1..n) \ LatestThree(items))
            \* recent / 3 >= (p / 100) * baseline / (n - 3)
            Ratio(p) == 100 * recent * (n - 3) >= p * 3 * baseline
            status   == result.factors.hrvStatus
        IN  IF n < 7
            THEN /\ status = 90 <=> total >= 60 * n
                 /\ status = 70 <=> (total >= 40 * n /\ total < 60 * n)
                 /\ status = 50 <=> (total >= 25 * n /\ total < 40 * n)
                 /\ status = 30 <=> total < 25 * n
            ELSE baseline > 0 =>
                 /\ status = 95 <=> Ratio(105)
                 /\ status = 80 <=> (Ratio(95) /\ ~Ratio(105))
                 /\ status = 60 <=> (Ratio(85) /\ ~Ratio(95))
                 /\ status = 40 <=> (Ratio(75) /\ ~Ratio(85))
                 /\ status = 25 <=> ~Ratio(75)

\* C26: for every heartRate input the restingHeartRate factor of
\* calculateTrainingReadiness is one of 40, 50, 55, 65, 75, 85, 95, so never
\* below 40; consequently the details never hold the clause 'Resting heart
\* rate is elevated.'.
C26_RestingHeartRateNeverBelowForty ==
    Returned("calculateTrainingReadiness") =>
        /\ result.factors.restingHeartRate \in {40, 50, 55, 65, 75, 85, 95}
        /\ \A i \in 1..Len(result.details) :
              result.details[i] # "Resting heart rate is elevated."

\* readings whose lowest values average above 70 bpm have been scored 40, the
\* lowest tier, and the details say nothing of the heart rate
C26_Witness ==
    /\ Returned("calculateTrainingReadiness")
    /\ args.heartRate.present
    /\ \A i \in 1..Len(args.heartRate.items) : args.heartRate.items[i].bpm > 70
    /\ Len(args.heartRate.items) > 0
    /\ result.factors.restingHeartRate = 40
    /\ \A i \in 1..Len(result.details) :
          result.details[i] # "Resting heart rate is elevated."

----------------------------------------------------------------------------
(* Claims about the trend of the sleep debt *)

\* C27: analyzeSleepDebt returns trend 'stable' for every input with fewer
\* than 4 sessions, whatever the durations of those sessions; only inputs with
\* 4 or more sessions can yield 'recovering' or 'accumulating'.
C27_TrendNeedsFourSessions ==
    Returned("analyzeSleepDebt") =>
        /\ Len(args.sessions) < 4 => result.trend = "stable"
        /\ result.trend \in {"recovering", "accumulating"} => Len(args.sessions) >= 4

\* three nights, the last of them four hours longer than the first, have been
\* found stable
C27_Witness ==
    /\ Returned("analyzeSleepDebt")
    /\ Len(args.sessions) = 3
    /\ \E i, j \in 1..3 :
          /\ args.sessions[i].day < args.sessions[j].day
          /\ args.sessions[j].totalSleepDuration
                >= args.sessions[i].totalSleepDuration + 4 * 3600
    /\ result.trend = "stable"

----------------------------------------------------------------------------
(* Claims about OuraDriver.parseSleepPhases *)

\* the instant a date string spells (Date.parse)
InstantOf(text) == text.date * 86400000 + text.time - text.offset * 60000

\* the characters of the phase string (none for null)
PhaseString(phases) == IF phases.present THEN phases.items ELSE <<>>

\* positions a + 1 .. b hold one maximal run of the stage character c
MaximalRun(chars, a, b, c) ==
    /\ 0 <= a /\ a < b /\ b <= Len(chars)
    /\ \A k \in (a + 1)..b : chars[k] = c
    /\ a = 0 \/ chars[a] # c
    /\ b = Len(chars) \/ chars[b + 1] # c

RECURSIVE TotalDuration(_)
TotalDuration(stages) ==
    IF Len(stages) = 0 THEN 0 ELSE Head(stages).duration + TotalDuration(Tail(stages))

\* C30: parseSleepPhases run-length encodes the 5-minute phase string: the
\* returned stages are in ascending time order and do not overlap, each stage
\* covers one maximal run of equal characters among '1'..'4' with duration =
\* 300 s x run length = endTime - startTime, runs of any other character
\* produce no stage, and the sum of all stage durations is 300 s x the number
\* of characters in '1'..'4'; a null or empty string yields no stages.
C30_StagesAreTheRuns ==
    Returned("parseSleepPhases") =>
        LET chars == PhaseString(args.phases)
            start == InstantOf(args.bedtimeStart)
        IN  /\ Len(chars) = 0 => result = <<>>
            /\ \A k \in 1..Len(result) :
                  \E a \in 0..Len(chars), b \in 0..Len(chars) :
                      /\ MaximalRun(chars, a, b, chars[a + 1])
                      /\ chars[a + 1] \in {"1", "2", "3", "4"}
                      /\ InstantOf(result[k].startTime) = start + a * 300000
                      /\ InstantOf(result[k].endTime) = start + b * 300000
                      /\ result[k].duration = 300 * (b - a)
                      /\ result[k].duration * 1000
                            = InstantOf(result[k].endTime) - InstantOf(result[k].startTime)
            /\ \A k \in 1..(Len(result) - 1) :
                  InstantOf(result[k].endTime) <= InstantOf(result[k + 1].startTime)
            /\ TotalDuration(result)
                  = 300 * Cardinality({k \in 1..Len(chars) : chars[k] \in {"1", "2", "3", "4"}})

\* a string with a run of two, a gap and another run has given two stages
\* that leave the gap between them
C30_Witness ==
    /\ Returned("parseSleepPhases")
    /\ args.phases.present
    /\ Len(args.phases.items) = 4
    /\ args.phases.items[1] = args.phases.items[2]
    /\ args.phases.items[3] = "0"
    /\ Len(result) = 2
    /\ result[1].duration = 600
    /\ InstantOf(result[1].endTime) < InstantOf(result[2].startTime)

----------------------------------------------------------------------------
(* Claims about the drivers *)

\* the sign-in requests sent so far
SignIns(log) == Cardinality({k \in 1..Len(log) : log[k].endpoint = SignInEndpoint})

\* C28: for a RenphoDriver created without an access token, under any
\* interleaving of concurrently started getBodyComposition,
\* getWeightMeasurements and getPersonalInfo calls, the sign-in request is
\* sent at most once per driver instance; once a sign-in has succeeded no
\* further sign-in is sent; and a failed sign-in leaves sessionKey null, so
\* that isAuthenticated() stays false.
C28_SignInSentAtMostOnce ==
    /\ [](driver # <<>> /\ driver.type = "renpho" => SignIns(io) <= 1)
    /\ [][driver.type = "renpho" /\ driver.sessionKey # Null
             => SignIns(io') = SignIns(io)]_vars
    /\ [][driver.type = "renpho"
          /\ (\E t \in 1..Len(tasks) :
                 tasks[t].pc = "signingIn" /\ tasks'[t].pc = "rejected")
             => driver'.sessionKey = driver.sessionKey]_vars

\* the elements of a sequence
Elements(list) == {list[k] : k \in 1..Len(list)}

\* the call that a step has just added, if the step is a getter call
IsCallStep == Len(tasks') = Len(tasks) + 1
NewTask == tasks'[Len(tasks')]

\* what a call settles with: for a call that is pending, what the getter it
\* awaits has settled with
Outcome(task) ==
    IF task.pc = "pending" THEN task.awaited
    ELSE IF task.pc = "rejected" THEN [pc |-> "rejected", error |-> task.error]
    ELSE [pc |-> "resolved", value |-> task.value]

\* C22: on one AppleHealthDriver, across any sequence of getter calls and
\* any changes of the export file, the file is read and parsed at most once:
\* a call that needs records and finds the cache unloaded reads the file and
\* sets the cache; a call that finds it loaded resolves from the cached
\* records without reading; and when the file does not exist the call
\* rejects, reads nothing and leaves the cache unloaded, so that a later
\* call tries again.
\* A call that awaits another getter settles one step after it was made,
\* with what that getter has settled with, and that step reads nothing.
C22_ExportReadAtMostOnce ==
    /\ [](driver # <<>> /\ driver.type = "apple_health"
            => /\ Len(io) <= 1
               /\ driver.loaded <=> Len(io) = 1)
    /\ [][driver.type = "apple_health" /\ IsCallStep
          /\ NewTask.method \in AppleRecordGetters
             => IF driver.loaded
                THEN /\ io' = io
                     /\ driver' = driver
                     /\ Outcome(NewTask).pc = "resolved"
                     /\ \A k \in 1..Len(Outcome(NewTask).value) :
                           Elements(Outcome(NewTask).value[k])
                               \subseteq Elements(io[1].content)
                ELSE IF env.exists
                THEN /\ io' = <<[read |-> "export.xml", content |-> env.content]>>
                     /\ driver'.loaded
                     /\ Outcome(NewTask).pc = "resolved"
                     /\ \A k \in 1..Len(Outcome(NewTask).value) :
                           Elements(Outcome(NewTask).value[k])
                               \subseteq Elements(env.content)
                ELSE /\ io' = io
                     /\ driver' = driver
                     /\ ~driver'.loaded
                     /\ Outcome(NewTask).pc = "rejected"]_vars
    /\ [][driver.type = "apple_health"
             => \A t \in 1..Len(tasks) :
                   tasks[t].pc = "pending" /\ tasks'[t].pc # "pending"
                       => /\ io' = io
                          /\ driver' = driver
                          /\ Outcome(tasks'[t]) = tasks[t].awaited]_vars

\* Two calls have resolved after the file was replaced between them: the
\* second one, a getDailySleep that was pending when it returned, gave
\* records of the export that was read, not of the file now on disk.
C22_Witness ==
    /\ driver # <<>> /\ driver.type = "apple_health"
    /\ Len(tasks) = 2
    /\ tasks[1].pc = "resolved" /\ tasks[2].pc = "resolved"
    /\ tasks[2].method = "getDailySleep"
    /\ Len(io) = 1
    /\ env.exists /\ env.content # io[1].content
    /\ \E k \in 1..Len(tasks[2].value) : tasks[2].value[k] # <<>>

\* the requests a call has sent, in order
RECURSIVE SentBy(_, _)
SentBy(log, t) ==
    IF log = <<>> THEN <<>>
    ELSE IF Head(log).by = t THEN <<Head(log)>> \o SentBy(Tail(log), t)
         ELSE SentBy(Tail(log), t)

\* the records of the first n pages, in page order
RECURSIVE RecordsUpTo(_, _, _)
RecordsUpTo(pages, field, n) ==
    IF n = 0 THEN <<>> ELSE RecordsUpTo(pages, field, n - 1) \o pages[n][field]

\* the first page whose next_token is null or empty
LastPage(pages) ==
    CHOOSE n \in 1..Len(pages) :
        /\ pages[n].next_token \in {Null, ""}
        /\ \A k \in 1..(n - 1) : pages[k].next_token \notin {Null, ""}

IsPaging == driver # <<>> /\ driver.type \in {"oura", "whoop"}
IsFetch(t) == Len(tasks) >= t /\ tasks[t].method = "fetchAllPages"
Settled(t) == Len(tasks) >= t /\ tasks[t].pc \in {"resolved", "rejected"}

\* C29: a fetchAllPages call of the Oura or WHOOP driver sends its first
\* request without a token and each later request with the token of the
\* page before; it asks for no page after the first one whose next_token is
\* null or empty; when it resolves it has asked for exactly the pages up to
\* that one and its value is their records in page order; a call that
\* rejects returns no records; and with finitely many pages every call
\* that was started resolves or rejects. All the requests of a call go to
\* its endpoint, whatever other calls are under way.
C29_PagesFollowedToTheEnd ==
    /\ [](IsPaging =>
            \A t \in {c \in 1..Len(tasks) : IsFetch(c)} :
                LET sent == SentBy(io, t)
                    token == TokenParam(driver.type)
                IN  /\ Len(sent) >= 1
                    /\ sent[1].queryParams = {}
                    /\ \A k \in 2..Len(sent) :
                          /\ sent[k].queryParams = {<<token, env.pages[k - 1].next_token>>}
                          /\ sent[k].endpoint = sent[1].endpoint
                    /\ Len(sent) <= LastPage(env.pages)
                    /\ tasks[t].pc = "resolved" =>
                          /\ Len(sent) = LastPage(env.pages)
                          /\ tasks[t].value =
                                RecordsUpTo(env.pages, DataField(driver.type),
                                            LastPage(env.pages))
                    /\ tasks[t].pc = "rejected" => "value" \notin DOMAIN tasks[t])
    /\ \A t \in 1..MaxFetches : (IsPaging /\ IsFetch(t)) ~> Settled(t)

\* A call has resolved with the records of three pages, after a third
\* request that carried the token of the second page
C29_Witness ==
    /\ IsPaging
    /\ \E t \in 1..Len(tasks) :
          /\ tasks[t].method = "fetchAllPages"
          /\ tasks[t].pc = "resolved"
          /\ Len(SentBy(io, t)) = 3
          /\ SentBy(io, t)[3].queryParams =
                {<<TokenParam(driver.type), env.pages[2].next_token>>}
          /\ env.pages[2].next_token # env.pages[1].next_token
          /\ Len(tasks[t].value) = 6

\* the getters that the claim lists for each driver
ListedAsUnsupported(type) ==
    IF type = "renpho"
    THEN {"getSleep", "getDailySleep", "getDailyActivity", "getWorkouts",
          "getReadiness", "getHeartRate", "getHRV", "getSpO2", "getStress",
          "getBodyTemperature", "getVO2Max"}
    ELSE IF type = "oura" THEN {"getBodyComposition", "getWeightMeasurements"}
    ELSE IF type = "whoop"
    THEN {"getBodyComposition", "getWeightMeasurements", "getVO2Max"}
    ELSE {"getReadiness", "getStress"}

\* C21: in every state of a Renpho, Oura, WHOOP or Apple Health driver
\* (session key or access token present or not, export file present or not,
\* cache loaded or not, other calls in flight or not) each getter of a
\* metric the platform does not support can be called, and the call
\* resolves to an empty array without sending a request, reading the file
\* or changing the driver.
C21_UnsupportedGettersResolveEmpty ==
    /\ [](driver # <<>> /\ Len(tasks) < MaxDriverCalls
            => \A name \in ListedAsUnsupported(driver.type) :
                  ENABLED GetUnsupported(name))
    /\ [][IsCallStep /\ NewTask.method \in ListedAsUnsupported(driver.type)
             => /\ NewTask.pc = "resolved"
                /\ NewTask.value = <<>>
                /\ driver' = driver
                /\ io' = io
                /\ env' = env
                /\ \A t \in 1..Len(tasks) : tasks'[t] = tasks[t]]_vars

\* getStress has resolved on an Apple Health driver whose export file is
\* there and not loaded: nothing was read.
C21_Witness ==
    /\ driver # <<>> /\ driver.type = "apple_health"
    /\ env.exists /\ ~driver.loaded /\ io = <<>>
    /\ \E t \in 1..Len(tasks) :
          /\ tasks[t].method = "getStress"
          /\ tasks[t].pc = "resolved"
          /\ tasks[t].value = <<>>

====
